---- MODULE Spec2Model ----
(***************************************************************************)
(* A model of tablib-go's Dataset (src/dataset.go): the table's state, its *)
(* mutations and derivations, the cell comparison compareAny and the row   *)
(* key rowKey.  Text (header names, tags, string cells, renderings) is a   *)
(* sequence of byte codes, so that Go's bytewise string order is computed. *)
(* Indexes passed to operations are 0-based, as in the code; sequences are *)
(* 1-based, so position i of the code is element i+1 here.                 *)
(***************************************************************************)
EXTENDS Integers, Sequences, FiniteSets, TLC

VARIABLES ds, res, op, err, ret, hist, shared, cmpArgs, cmpOut,
          file, registry, pc, db

vars == <<ds, res, op, err, ret, hist, shared, cmpArgs, cmpOut, file, registry, pc, db>>

\* what the codecs work on: the bytes or archive an export wrote (file), the
\* process-wide handler maps (registry), the position of each goroutine that
\* is inside a Register call (pc) and a Databook's sheets (db)
codecVars == <<file, registry, pc, db>>

(***************************************************************************)
(* The format registry (src/dbf.go, the registry part): three maps from a  *)
(* format identifier to a handler.  A map is a function on Formats whose   *)
(* value "none" stands for an absent key; a handler is named by the        *)
(* function it wraps.                                                      *)
(***************************************************************************)
Formats ==
  {"csv", "tsv", "json", "yaml", "xlsx", "html", "markdown", "latex", "sql",
   "rst", "jira", "cli", "dbf", "ods", "xls"}

EmptyMap == [f \in Formats |-> "none"]

\* a store that keeps the handler a format already has
MapStoreIfAbsent(m, format, handler) ==
  IF m[format] = "none" THEN [m EXCEPT ![format] = handler] ELSE m

\* m[format] = handler
MapStore(m, format, handler) == [m EXCEPT ![format] = handler]

RegisterExporter(r, format, exporter) ==
  [r EXCEPT !.exporters = MapStore(r.exporters, format, exporter)]

RegisterImporter(r, format, importer) ==
  [r EXCEPT !.importers = MapStore(r.importers, format, importer)]

RegisterDatabookExporter(r, format, exporter) ==
  [r EXCEPT !.databookExporters = MapStore(r.databookExporters, format, exporter)]

\* the maps as the package's init functions leave them
Registered ==
  [exporters |->
     [f \in Formats |->
        CASE f = "csv" -> "exportCSV" [] f = "tsv" -> "exportTSV"
          [] f = "dbf" -> "exportDBF" [] f = "yaml" -> "exportYAML"
          [] f = "json" -> "exportJSON" [] f = "ods" -> "exportODS"
          [] f = "rst" -> "exportRST" [] f = "xls" -> "exportXLS"
          [] f = "html" -> "exportHTML" [] f = "markdown" -> "exportMarkdown"
          [] f = "jira" -> "exportJira" [] f = "xlsx" -> "exportXLSX"
          [] OTHER -> "none"],
   importers |->
     [f \in Formats |->
        CASE f = "csv" -> "importCSV" [] f = "tsv" -> "importTSV"
          [] f = "dbf" -> "importDBF" [] f = "yaml" -> "importYAML"
          [] f = "json" -> "importJSON" [] f = "xlsx" -> "importXLSX"
          [] OTHER -> "none"],
   databookExporters |->
     [f \in Formats |->
        CASE f = "xls" -> "exportXLSDatabook" [] f = "yaml" -> "exportDatabookYAML"
          [] f = "json" -> "exportDatabookJSON" [] f = "ods" -> "exportODSDatabook"
          [] f = "xlsx" -> "exportDatabookXLSX"
          [] OTHER -> "none"]]

NoFile == <<>>

NoPc == <<>>

NoBook == <<>>

\* nothing exported, the registry as loaded, nobody registering, no Databook
NoCodec ==
  /\ file = NoFile
  /\ registry = Registered
  /\ pc = NoPc
  /\ db = NoBook

(***************************************************************************)
(* Bounds of the model.                                                    *)
(***************************************************************************)
MaxRows == 2

MaxCols == 2

MaxSortRows == 3

MaxSeps == 1

MaxPairRows == 2

MaxLater == 1

(***************************************************************************)
(* Cell values: Go's `any` holding int, int64, float64, string, bool, nil. *)
(* n is the numeric payload (bool: 1 = true), s the bytes of a string.     *)
(* float64 cells are modelled for integral values below 10^6 only, where   *)
(* %v prints them as the integer's digits.                                 *)
(***************************************************************************)
IntV(i) == [k |-> "int", n |-> i, s |-> <<>>]

Int64V(i) == [k |-> "int64", n |-> i, s |-> <<>>]

FloatV(i) == [k |-> "float64", n |-> i, s |-> <<>>]

StrV(b) == [k |-> "string", n |-> 0, s |-> b]

BoolV(b) == [k |-> "bool", n |-> IF b THEN 1 ELSE 0, s |-> <<>>]

NilV == [k |-> "nil", n |-> 0, s |-> <<>>]

RECURSIVE Digits(_)
Digits(n) == IF n < 10 THEN <<48 + n>> ELSE Digits(n \div 10) \o <<48 + (n % 10)>>

IntText(n) == IF n < 0 THEN <<45>> \o Digits(0 - n) ELSE Digits(n)

\* fmt.Sprintf("%v", v)
Render(v) ==
  CASE v.k = "int" -> IntText(v.n)
    [] v.k = "int64" -> IntText(v.n)
    [] v.k = "float64" -> IntText(v.n)
    [] v.k = "string" -> v.s
    [] v.k = "bool" -> IF v.n = 1 THEN <<116, 114, 117, 101>> ELSE <<102, 97, 108, 115, 101>>
    [] OTHER -> <<60, 110, 105, 108, 62>>

\* cmp.Compare on ordered numbers
CmpNum(x, y) == IF x < y THEN 0 - 1 ELSE IF x > y THEN 1 ELSE 0

\* cmp.Compare on strings: bytewise lexicographic order
RECURSIVE CmpText(_, _)
CmpText(x, y) ==
  IF Len(x) = 0 THEN (IF Len(y) = 0 THEN 0 ELSE 0 - 1)
  ELSE IF Len(y) = 0 THEN 1
  ELSE IF x[1] < y[1] THEN 0 - 1
  ELSE IF x[1] > y[1] THEN 1
  ELSE CmpText(Tail(x), Tail(y))

compareAny(a, b) ==
  IF a.k = "int" /\ b.k = "int" THEN CmpNum(a.n, b.n)
  ELSE IF a.k = "int64" /\ b.k = "int64" THEN CmpNum(a.n, b.n)
  ELSE IF a.k = "float64" /\ b.k = "float64" THEN CmpNum(a.n, b.n)
  ELSE IF a.k = "string" /\ b.k = "string" THEN CmpText(a.s, b.s)
  ELSE CmpText(Render(a), Render(b))

\* rowKey: each cell's rendering followed by a NUL byte
RECURSIVE rowKey(_)
rowKey(row) ==
  IF Len(row) = 0 THEN <<>> ELSE Render(row[1]) \o <<0>> \o rowKey(Tail(row))

(***************************************************************************)
(* The Dataset.  separators is the map row index -> Separator, kept as a   *)
(* set of [pos, text] with at most one entry per pos; dynamicCols is the   *)
(* map name -> function, kept as a set of [name, fn] with at most one      *)
(* entry per name; formatters is the list of registered functions.  A      *)
(* function value is the name of a function the client passes.             *)
(***************************************************************************)
NewDataset(headers) ==
  [headers |-> headers, data |-> <<>>, tags |-> <<>>, title |-> <<>>,
   dynamicCols |-> {}, formatters |-> <<>>, separators |-> {}]

Height(t) == Len(t.data)

Width(t) ==
  IF Len(t.headers) > 0 THEN Len(t.headers)
  ELSE IF Len(t.data) > 0 THEN Len(t.data[1])
  ELSE 0

\* slices.Insert(s, i, x) and slices.Delete(s, i, i+1), i 0-based and in range
InsertAt(s, i, x) == SubSeq(s, 1, i) \o <<x>> \o SubSeq(s, i + 1, Len(s))

DeleteAt(s, i) == SubSeq(s, 1, i) \o SubSeq(s, i + 2, Len(s))

RECURSIVE IndexFrom(_, _, _)
IndexFrom(s, x, i) ==
  IF i > Len(s) THEN 0 - 1 ELSE IF s[i] = x THEN i - 1 ELSE IndexFrom(s, x, i + 1)

headerIndex(t, header) == IndexFrom(t.headers, header, 1)

Ok(t) == [t |-> t, err |-> "nil", ret |-> <<>>]

Fail(t, e) == [t |-> t, err |-> e, ret |-> <<>>]

AppendRowNoCheck(t, row, rowTags) ==
  Ok([t EXCEPT !.data = Append(t.data, row), !.tags = Append(t.tags, rowTags)])

AppendRow(t, row, rowTags) ==
  IF Width(t) > 0 /\ Len(row) # Width(t) THEN Fail(t, "ErrInvalidDimensions")
  ELSE Ok([t EXCEPT !.data = Append(t.data, row), !.tags = Append(t.tags, rowTags)])

Insert(t, index, row, rowTags) ==
  IF index < 0 \/ index > Len(t.data) THEN Fail(t, "ErrInvalidRowIndex")
  ELSE IF Width(t) > 0 /\ Len(row) # Width(t) THEN Fail(t, "ErrInvalidDimensions")
  ELSE Ok([t EXCEPT !.data = InsertAt(t.data, index, row),
                    !.tags = InsertAt(t.tags, index, rowTags)])

PopKeepTags(t, index) ==
  IF index < 0 \/ index >= Len(t.data) THEN Fail(t, "ErrInvalidRowIndex")
  ELSE [t |-> [t EXCEPT !.data = DeleteAt(t.data, index)],
        err |-> "nil", ret |-> <<t.data[index + 1]>>]

Pop(t, index) ==
  IF index < 0 \/ index >= Len(t.data) THEN Fail(t, "ErrInvalidRowIndex")
  ELSE [t |-> [t EXCEPT !.data = DeleteAt(t.data, index),
                        !.tags = DeleteAt(t.tags, index)],
        err |-> "nil", ret |-> <<t.data[index + 1]>>]

Lpop(t) == IF Len(t.data) = 0 THEN Fail(t, "ErrEmptyDataset") ELSE Pop(t, 0)

Rpop(t) == IF Len(t.data) = 0 THEN Fail(t, "ErrEmptyDataset") ELSE Pop(t, Len(t.data) - 1)

SetHeadersThenCheck(t, headers) ==
  IF Len(t.data) > 0 /\ Len(headers) # Width(t)
  THEN Fail([t EXCEPT !.headers = headers], "ErrInvalidDimensions")
  ELSE Ok([t EXCEPT !.headers = headers])

SetHeaders(t, headers) ==
  IF Len(t.data) > 0 /\ Len(headers) # Width(t) THEN Fail(t, "ErrInvalidDimensions")
  ELSE Ok([t EXCEPT !.headers = headers])

\* ds.data[row][col] = value panics when the stored row is shorter than Width()
Set(t, row, col, value) ==
  IF row < 0 \/ row >= Len(t.data) THEN Fail(t, "ErrInvalidRowIndex")
  ELSE IF col < 0 \/ col >= Width(t) THEN Fail(t, "ErrInvalidColumnIndex")
  ELSE IF col >= Len(t.data[row + 1]) THEN Fail(t, "panic")
  ELSE Ok([t EXCEPT !.data[row + 1][col + 1] = value])

\* "If dataset is empty, initialize rows": len(col) empty rows and tag lists
InitRows(t, col) ==
  IF Len(t.data) = 0 /\ Len(col) > 0
  THEN [t EXCEPT !.data = [i \in 1..Len(col) |-> <<>>],
                 !.tags = [i \in 1..Len(col) |-> <<>>]]
  ELSE t

AppendCol(t, header, col) ==
  IF Len(t.data) > 0 /\ Len(col) # Len(t.data) THEN Fail(t, "ErrInvalidDimensions")
  ELSE LET t0 == InitRows(t, col)
       IN Ok([t0 EXCEPT !.headers = Append(t0.headers, header),
                        !.data = IF Len(t0.data) = 0 THEN <<>>
                                 ELSE [i \in 1..Len(t0.data) |->
                                         Append(t0.data[i], col[i])]])

\* the loop ds.data[i] = slices.Insert(ds.data[i], index, col[i]); slices.Insert
\* panics at the first row shorter than index, the rows before it already changed
RECURSIVE insertCells(_, _, _)
insertCells(data, index, col) ==
  IF Len(data) = 0 THEN [data |-> <<>>, panic |-> FALSE]
  ELSE IF index > Len(data[1]) THEN [data |-> data, panic |-> TRUE]
  ELSE LET r == insertCells(Tail(data), index, Tail(col))
       IN [data |-> <<InsertAt(data[1], index, col[1])>> \o r.data, panic |-> r.panic]

InsertCol(t, index, header, col) ==
  IF index < 0 \/ index > Width(t) THEN Fail(t, "ErrInvalidColumnIndex")
  ELSE IF Len(t.data) > 0 /\ Len(col) # Len(t.data) THEN Fail(t, "ErrInvalidDimensions")
  ELSE LET t0 == InitRows(t, col)
       IN IF index > Len(t0.headers) THEN Fail(t0, "panic")
          ELSE LET r == insertCells(t0.data, index, col)
                   t1 == [t0 EXCEPT !.headers = InsertAt(t0.headers, index, header),
                                    !.data = r.data]
               IN IF r.panic THEN Fail(t1, "panic") ELSE Ok(t1)

\* the loop ds.data[i] = slices.Delete(ds.data[i], index, index+1)
RECURSIVE deleteCells(_, _)
deleteCells(data, index) ==
  IF Len(data) = 0 THEN [data |-> <<>>, panic |-> FALSE]
  ELSE IF index >= Len(data[1]) THEN [data |-> data, panic |-> TRUE]
  ELSE LET r == deleteCells(Tail(data), index)
       IN [data |-> <<DeleteAt(data[1], index)>> \o r.data, panic |-> r.panic]

DeleteCol(t, index) ==
  IF index < 0 \/ index >= Width(t) THEN Fail(t, "ErrInvalidColumnIndex")
  ELSE IF index >= Len(t.headers) THEN Fail(t, "panic")
  ELSE LET r == deleteCells(t.data, index)
           t1 == [t EXCEPT !.headers = DeleteAt(t.headers, index), !.data = r.data]
       IN IF r.panic THEN Fail(t1, "panic") ELSE Ok(t1)

DeleteColByHeader(t, header) ==
  IF headerIndex(t, header) = 0 - 1 THEN Fail(t, "ErrColumnNotFound")
  ELSE DeleteCol(t, headerIndex(t, header))

PutSeparator(seps, index, text) ==
  {s \in seps : s.pos # index} \cup {[pos |-> index, text |-> text]}

InsertSeparatorAnyIndex(t, index, text) ==
  IF index < 0 THEN Fail(t, "ErrInvalidRowIndex")
  ELSE Ok([t EXCEPT !.separators = PutSeparator(t.separators, index, text)])

InsertSeparator(t, index, text) ==
  IF index < 0 \/ index > Len(t.data) THEN Fail(t, "ErrInvalidRowIndex")
  ELSE Ok([t EXCEPT !.separators = PutSeparator(t.separators, index, text)])

AppendSeparator(t, text) ==
  Ok([t EXCEPT !.separators = PutSeparator(t.separators, Len(t.data), text)])

Wipe(t) == Ok([t EXCEPT !.data = <<>>, !.tags = <<>>])

PutDynamicColumn(cols, header, fn) ==
  {d \in cols : d.name # header} \cup {[name |-> header, fn |-> fn]}

AddDynamicColumn(t, header, fn) ==
  Ok([t EXCEPT !.dynamicCols = PutDynamicColumn(t.dynamicCols, header, fn)])

AddFormatter(t, fn) == Ok([t EXCEPT !.formatters = Append(t.formatters, fn)])

\* the DynamicColumn functions a client registers: the row's length, and nil
CallDynamicColumn(fn, row) == IF fn = "len" THEN IntV(Len(row)) ELSE NilV

DynamicNames(t) == {d.name : d \in t.dynamicCols}

DynamicFn(t, name) == (CHOOSE d \in t.dynamicCols : d.name = name).fn

\* for j, h := range ds.headers { m[h] = row[j] }: the last column named h
LastIndex(s, x) == CHOOSE j \in 1..Len(s) : s[j] = x /\ \A k \in (j + 1)..Len(s) : s[k] # x

\* the map Dict builds for one row: the headers' cells, then the dynamic
\* columns' values written over them
DictRow(t, row) ==
  [k \in {t.headers[j] : j \in 1..Len(t.headers)} \cup DynamicNames(t) |->
     IF k \in DynamicNames(t) THEN CallDynamicColumn(DynamicFn(t, k), row)
     ELSE row[LastIndex(t.headers, k)]]

\* ret holds the returned list of maps; row[j] panics on a row shorter than
\* the headers
Dict(t) ==
  IF Len(t.headers) = 0 THEN Fail(t, "ErrHeadersRequired")
  ELSE IF \E i \in 1..Len(t.data) : Len(t.data[i]) < Len(t.headers) THEN Fail(t, "panic")
  ELSE [t |-> t, err |-> "nil",
        ret |-> <<IF Len(t.data) = 0 THEN <<>>
                  ELSE [i \in 1..Len(t.data) |-> DictRow(t, t.data[i])]>>]

(***************************************************************************)
(* slices.SortFunc(indices, cmp) as Sort calls it.  d is the slice being   *)
(* sorted (row numbers), keys[r] the sort-column cell of row r.  Positions *)
(* p, q, a, b are 0-based as in the library.  Slices of at most            *)
(* maxInsertion elements are insertion-sorted; one of maxInsertion + 1     *)
(* elements takes one pivot partition and insertion-sorts both sides       *)
(* (neither side can exceed maxInsertion).  Longer slices are not          *)
(* modelled: SortLarge is the longest table any specification sorts.       *)
(***************************************************************************)
maxInsertion == 12

SortLarge == maxInsertion + 1

\* the closure passed to slices.SortFunc: compareAny on the column, negated
\* when reverse
SortCmpIgnoreReverse(keys, reverse, x, y) == compareAny(keys[x], keys[y])

SortCmp(keys, reverse, x, y) ==
  IF reverse THEN 0 - compareAny(keys[x], keys[y]) ELSE compareAny(keys[x], keys[y])

Less(keys, reverse, x, y) == SortCmp(keys, reverse, x, y) < 0

At(d, p) == d[p + 1]

Swap(d, p, q) == [d EXCEPT ![p + 1] = d[q + 1], ![q + 1] = d[p + 1]]

\* the inner loop of insertionSortCmpFunc: sink x from the end of the sorted
\* prefix while it compares below its left neighbour
RECURSIVE Sink(_, _, _, _)
Sink(keys, reverse, prefix, x) ==
  IF Len(prefix) = 0 \/ ~Less(keys, reverse, x, prefix[Len(prefix)])
  THEN Append(prefix, x)
  ELSE Append(Sink(keys, reverse, SubSeq(prefix, 1, Len(prefix) - 1), x),
              prefix[Len(prefix)])

RECURSIVE insertionSortFrom(_, _, _, _)
insertionSortFrom(keys, reverse, done, rest) ==
  IF Len(rest) = 0 THEN done
  ELSE insertionSortFrom(keys, reverse, Sink(keys, reverse, done, rest[1]), Tail(rest))

insertionSort(keys, reverse, d) == insertionSortFrom(keys, reverse, <<>>, d)

\* order2CmpFunc: <<x, y, swapped>> with data[x] <= data[y]
order2(keys, reverse, d, a, b) ==
  IF Less(keys, reverse, At(d, b), At(d, a)) THEN <<b, a, 1>> ELSE <<a, b, 0>>

\* medianCmpFunc: <<position of the median of a, b, c, number of swaps>>
median(keys, reverse, d, a, b, c) ==
  LET o1 == order2(keys, reverse, d, a, b)
      o2 == order2(keys, reverse, d, o1[2], c)
      o3 == order2(keys, reverse, d, o1[1], o2[1])
  IN <<o3[2], o1[3] + o2[3] + o3[3]>>

\* choosePivotCmpFunc for 8 <= b - a < 50 (no ninther): <<pivot, swaps>>
choosePivot(keys, reverse, d, a, b) ==
  LET l == b - a
  IN median(keys, reverse, d, a + (l \div 4) * 1, a + (l \div 4) * 2, a + (l \div 4) * 3)

\* partialInsertionSortCmpFunc for b - a < 50: TRUE iff no adjacent pair is out
\* of order; the slice is never changed at this length
RECURSIVE inOrderFrom(_, _, _, _)
inOrderFrom(keys, reverse, d, i) ==
  IF i >= Len(d) THEN TRUE
  ELSE IF Less(keys, reverse, At(d, i), At(d, i - 1)) THEN FALSE
  ELSE inOrderFrom(keys, reverse, d, i + 1)

RECURSIVE scanUp(_, _, _, _, _, _)
scanUp(keys, reverse, d, a, i, j) ==
  IF i <= j /\ Less(keys, reverse, At(d, i), At(d, a))
  THEN scanUp(keys, reverse, d, a, i + 1, j) ELSE i

RECURSIVE scanDown(_, _, _, _, _, _)
scanDown(keys, reverse, d, a, i, j) ==
  IF i <= j /\ ~Less(keys, reverse, At(d, j), At(d, a))
  THEN scanDown(keys, reverse, d, a, i, j - 1) ELSE j

RECURSIVE partitionLoop(_, _, _, _, _, _)
partitionLoop(keys, reverse, d, a, i, j) ==
  LET i2 == scanUp(keys, reverse, d, a, i, j)
      j2 == scanDown(keys, reverse, d, a, i2, j)
  IN IF i2 > j2 THEN [d |-> Swap(d, j2, a), mid |-> j2]
     ELSE partitionLoop(keys, reverse, Swap(d, i2, j2), a, i2 + 1, j2 - 1)

\* partitionCmpFunc(data, a, b, pivot): the pivot goes to a, the scans swap
\* misplaced pairs, the pivot is swapped to its final place mid
partition(keys, reverse, d, a, b, pivot) ==
  partitionLoop(keys, reverse, Swap(d, a, pivot), a, a + 1, b - 1)

\* pdqsortCmpFunc on a slice of maxInsertion + 1 elements, a = 0
pdqsortOnce(keys, reverse, d) ==
  LET pv == choosePivot(keys, reverse, d, 0, Len(d))
  IN IF pv[2] = 0 /\ inOrderFrom(keys, reverse, d, 1) THEN d
     ELSE LET pt == partition(keys, reverse, d, 0, Len(d), pv[1])
          IN insertionSort(keys, reverse, SubSeq(pt.d, 1, pt.mid))
               \o <<At(pt.d, pt.mid)>>
               \o insertionSort(keys, reverse, SubSeq(pt.d, pt.mid + 2, Len(pt.d)))

SortFunc(keys, reverse, d) ==
  IF Len(d) <= maxInsertion THEN insertionSort(keys, reverse, d)
  ELSE pdqsortOnce(keys, reverse, d)

(***************************************************************************)
(* Derivations: each returns [t, err] with t = <<table>> on success and    *)
(* <<>> on an error or a panic.  The receiver is a value and is not        *)
(* changed by any of them.                                                 *)
(***************************************************************************)
Got(t) == [t |-> <<t>>, err |-> "nil"]

NoTable(e) == [t |-> <<>>, err |-> e]

Copy(t) ==
  [NewDataset(t.headers) EXCEPT !.title = t.title, !.dynamicCols = t.dynamicCols,
     !.formatters = t.formatters, !.separators = t.separators,
     !.data = t.data, !.tags = t.tags]

Contains(s, x) == \E i \in 1..Len(s) : s[i] = x

\* the positions of s, in order, whose element satisfies keep
RECURSIVE SelectIdx(_, _)
SelectIdx(n, keep) ==
  IF n = 0 THEN <<>>
  ELSE IF n \in keep THEN Append(SelectIdx(n - 1, keep), n) ELSE SelectIdx(n - 1, keep)

Pick(s, idx) == IF Len(idx) = 0 THEN <<>> ELSE [i \in 1..Len(idx) |-> s[idx[i]]]

Filter(t, tag) ==
  LET idx == SelectIdx(Len(t.data), {i \in 1..Len(t.data) : Contains(t.tags[i], tag)})
  IN [NewDataset(t.headers) EXCEPT !.title = t.title, !.dynamicCols = t.dynamicCols,
        !.data = Pick(t.data, idx), !.tags = Pick(t.tags, idx)]

Iota(n) == IF n = 0 THEN <<>> ELSE [i \in 1..n |-> i]

\* the cells the comparisons read; a row too short for colIndex makes the
\* first comparison that touches it panic (every row is compared when there
\* are at least two)
SortKeys(t, colIndex) ==
  [i \in 1..Len(t.data) |->
     IF colIndex < Len(t.data[i]) THEN t.data[i][colIndex + 1] ELSE NilV]

Sort(t, colIndex, reverse) ==
  IF colIndex < 0 \/ colIndex >= Width(t) THEN NoTable("ErrInvalidColumnIndex")
  ELSE IF Len(t.data) >= 2 /\ \E i \in 1..Len(t.data) : colIndex >= Len(t.data[i])
  THEN NoTable("panic")
  ELSE LET idx == SortFunc(SortKeys(t, colIndex), reverse, Iota(Len(t.data)))
       IN Got([Copy(t) EXCEPT !.data = Pick(t.data, idx), !.tags = Pick(t.tags, idx)])

\* ds.data[row][col] panics when the stored row is shorter than Width()
Get(t, row, col) ==
  IF row < 0 \/ row >= Len(t.data) THEN [ret |-> <<>>, err |-> "ErrInvalidRowIndex"]
  ELSE IF col < 0 \/ col >= Width(t) THEN [ret |-> <<>>, err |-> "ErrInvalidColumnIndex"]
  ELSE IF col >= Len(t.data[row + 1]) THEN [ret |-> <<>>, err |-> "panic"]
  ELSE [ret |-> <<t.data[row + 1][col + 1]>>, err |-> "nil"]

\* ds.data[i][0].(string): the cell itself when it is a string, else ""
HeaderOf(v) == IF v.k = "string" THEN v.s ELSE <<>>

Transpose(t) ==
  IF Len(t.data) = 0 THEN Got(NewDataset(<<>>))
  ELSE LET width == Width(t)
           height == Height(t)
           startCol == IF Len(t.headers) > 0 THEN 1 ELSE 0
           cols == IF width > startCol THEN [c \in 1..(width - startCol) |-> startCol + c - 1]
                   ELSE <<>>
       IN IF (Len(t.headers) > 0 /\ \E r \in 1..height : Len(t.data[r]) = 0)
             \/ (width > startCol /\ \E r \in 1..height : Len(t.data[r]) < width)
          THEN NoTable("panic")
          ELSE Got([NewDataset(IF Len(t.headers) > 0
                               THEN [r \in 1..height |-> HeaderOf(t.data[r][1])]
                               ELSE <<>>)
                    EXCEPT !.title = t.title,
                           !.data = IF Len(cols) = 0 THEN <<>>
                                    ELSE [c \in 1..Len(cols) |->
                                            [r \in 1..height |-> t.data[r][cols[c] + 1]]],
                           !.tags = IF Len(cols) = 0 THEN <<>>
                                    ELSE [c \in 1..Len(cols) |-> <<>>]])

StackRowsAnyWidth(t, other) ==
  Got([Copy(t) EXCEPT !.data = t.data \o other.data, !.tags = t.tags \o other.tags])

StackRows(t, other) ==
  IF Width(t) # Width(other) THEN NoTable("ErrInvalidDimensions")
  ELSE Got([Copy(t) EXCEPT !.data = t.data \o other.data, !.tags = t.tags \o other.tags])

StackCols(t, other) ==
  IF Height(t) # Height(other) THEN NoTable("ErrInvalidDimensions")
  ELSE Got([Copy(t) EXCEPT !.headers = t.headers \o other.headers,
                           !.data = IF Len(t.data) = 0 THEN <<>>
                                    ELSE [i \in 1..Len(t.data) |->
                                            t.data[i] \o other.data[i]]])

Subset(t, headers) ==
  IF \E i \in 1..Len(headers) : headerIndex(t, headers[i]) = 0 - 1
  THEN NoTable("ErrColumnNotFound")
  ELSE IF \E r \in 1..Len(t.data), i \in 1..Len(headers) :
            headerIndex(t, headers[i]) >= Len(t.data[r])
  THEN NoTable("panic")
  ELSE Got([NewDataset(headers) EXCEPT !.title = t.title,
              !.data = IF Len(t.data) = 0 THEN <<>>
                       ELSE [r \in 1..Len(t.data) |->
                               IF Len(headers) = 0 THEN <<>>
                               ELSE [i \in 1..Len(headers) |->
                                       t.data[r][headerIndex(t, headers[i]) + 1]]],
              !.tags = t.tags])

\* the loop of RemoveDuplicates: the rows (by position) kept so far and the
\* keys seen
RECURSIVE dedupeSkipping(_, _, _, _)
dedupeSkipping(data, i, seen, kept) ==
  IF i > Len(data) THEN kept
  ELSE IF rowKey(data[i]) \in seen
  THEN dedupeSkipping(data, i + 2, seen,
                      IF i + 1 <= Len(data) THEN Append(kept, i + 1) ELSE kept)
  ELSE dedupeSkipping(data, i + 1, seen \cup {rowKey(data[i])}, Append(kept, i))

RECURSIVE dedupe(_, _, _, _)
dedupe(data, i, seen, kept) ==
  IF i > Len(data) THEN kept
  ELSE IF rowKey(data[i]) \in seen THEN dedupe(data, i + 1, seen, kept)
  ELSE dedupe(data, i + 1, seen \cup {rowKey(data[i])}, Append(kept, i))

RemoveDuplicates(t) ==
  LET idx == dedupe(t.data, 1, {}, <<>>)
  IN [NewDataset(t.headers) EXCEPT !.title = t.title, !.dynamicCols = t.dynamicCols,
        !.data = Pick(t.data, idx), !.tags = Pick(t.tags, idx)]

(***************************************************************************)
(* The inputs a client passes.                                             *)
(***************************************************************************)
SeqsUpTo(S, n) == UNION {[1..k -> S] : k \in 0..n}

Names == {<<97>>, <<98>>}

Vals == {IntV(1), StrV(<<97>>)}

Tags == {<<116>>}

TagLists == {<<>>, <<(<<116>>)>>}

SepTexts == {<<45>>}

RowArgs == SeqsUpTo(Vals, MaxCols)

ColArgs == SeqsUpTo(Vals, MaxRows)

HeaderArgs == SeqsUpTo(Names, MaxCols)

\* NewDatasetWithData: Append row by row, nil on the first error
RECURSIVE NewDatasetWithDataFrom(_, _)
NewDatasetWithDataFrom(t, data) ==
  IF Len(data) = 0 THEN <<t>>
  ELSE IF AppendRow(t, data[1], <<>>).err # "nil" THEN <<>>
  ELSE NewDatasetWithDataFrom(AppendRow(t, data[1], <<>>).t, Tail(data))

NewDatasetWithData(headers, data) == NewDatasetWithDataFrom(NewDataset(headers), data)

\* the tables a client passes as `other` to StackRows and StackCols
OtherTables ==
  {c[1] : c \in {NewDatasetWithData(h, d) : h \in SeqsUpTo(Names, 1),
                                             d \in SeqsUpTo([1..1 -> Vals], 1)} \ {<<>>}}

\* the caps that keep the state space finite
InBounds(t) ==
  /\ Len(t.data) <= MaxRows
  /\ Len(t.headers) <= MaxCols
  /\ \A i \in 1..Len(t.data) : Len(t.data[i]) <= MaxCols
  /\ Cardinality(t.separators) <= MaxSeps

NoHist == <<>>

\* shared: the storage of the returned table that is the receiver's own
\* storage.  rows holds <<i, j>> when row j of the result is the same slice
\* as row i of the receiver, maps the names of the maps both tables hold.
NoLinks == [rows |-> {}, maps |-> {}]

\* every derivation builds its table with NewDataset, which makes new maps
\* and slices, and fills it row by row with make + copy (or append onto the
\* new table's own slices): no storage of the result is the receiver's
LinksSharingRows(name, t) ==
  IF name = "Copy" THEN [rows |-> {<<i, i>> : i \in 1..Len(t.data)}, maps |-> {}]
  ELSE NoLinks

Links(name, t) == NoLinks

NoCmp == <<>>

Idle == [name |-> "idle", idx |-> 0, n |-> 0, w |-> 0, h |-> 0]

OpRec(name, idx, n) == [name |-> name, idx |-> idx, n |-> n, w |-> Width(ds), h |-> Height(ds)]

Init ==
  /\ ds \in {NewDataset(h) : h \in HeaderArgs}
  /\ res = <<>>
  /\ op = Idle
  /\ err = "nil"
  /\ ret = <<>>
  /\ hist = NoHist
  /\ shared = NoLinks
  /\ cmpArgs = NoCmp
  /\ cmpOut = NoCmp
  /\ NoCodec

\* a mutating call: r is what the method did
Mutate(name, idx, n, r, h) ==
  /\ op = Idle
  /\ InBounds(r.t)
  /\ ds' = r.t
  /\ err' = r.err
  /\ ret' = r.ret
  /\ res' = <<>>
  /\ op' = OpRec(name, idx, n)
  /\ hist' = h
  /\ shared' = NoLinks
  /\ UNCHANGED <<cmpArgs, cmpOut, codecVars>>

\* a deriving call: r is what the method returned, h what the caller keeps
\* of its argument
DeriveNoting(name, idx, n, r, h) ==
  /\ op = Idle
  /\ res' = r.t
  /\ err' = r.err
  /\ ret' = <<>>
  /\ op' = OpRec(name, idx, n)
  /\ hist' = h
  /\ shared' = Links(name, ds)
  /\ UNCHANGED <<ds, cmpArgs, cmpOut, codecVars>>

Derive(name, idx, n, r) == DeriveNoting(name, idx, n, r, NoHist)

CallAppend ==
  \E row \in RowArgs, rowTags \in TagLists :
    Mutate("Append", 0, Len(row), AppendRow(ds, row, rowTags), NoHist)

\* hist remembers a successful Pop(i) while the very next call is
\* Insert(i, poppedRow)
CallInsert ==
  \E index \in (0 - 1)..MaxRows, row \in RowArgs, rowTags \in TagLists :
    Mutate("Insert", index, Len(row), Insert(ds, index, row, rowTags),
           IF hist # NoHist /\ hist[1].stage = "popped" /\ hist[1].i = index
              /\ hist[1].row = row
           THEN <<[hist[1] EXCEPT !.stage = "reinserted"]>>
           ELSE NoHist)

CallPop ==
  \E index \in (0 - 1)..MaxRows :
    Mutate("Pop", index, 0, Pop(ds, index),
           IF Pop(ds, index).err = "nil"
           THEN <<[stage |-> "popped", i |-> index, row |-> Pop(ds, index).ret[1],
                   data |-> ds.data]>>
           ELSE NoHist)

CallLpop == Mutate("Lpop", 0, 0, Lpop(ds), NoHist)

CallRpop == Mutate("Rpop", 0, 0, Rpop(ds), NoHist)

CallSet ==
  \E row \in (0 - 1)..MaxRows, col \in (0 - 1)..MaxCols, value \in Vals :
    Mutate("Set", row, col, Set(ds, row, col, value), NoHist)

CallSetHeaders ==
  \E headers \in HeaderArgs :
    Mutate("SetHeaders", 0, Len(headers), SetHeaders(ds, headers), NoHist)

CallAppendCol ==
  \E header \in Names, col \in ColArgs :
    Mutate("AppendCol", 0, Len(col), AppendCol(ds, header, col),
           <<[stage |-> "column", header |-> header, col |-> col]>>)

CallInsertCol ==
  \E index \in (0 - 1)..MaxCols, header \in Names, col \in ColArgs :
    Mutate("InsertCol", index, Len(col), InsertCol(ds, index, header, col),
           <<[stage |-> "column", header |-> header, col |-> col]>>)

CallDeleteCol ==
  \E index \in (0 - 1)..MaxCols :
    Mutate("DeleteCol", index, 0, DeleteCol(ds, index), NoHist)

CallDeleteColByHeader ==
  \E header \in Names :
    Mutate("DeleteColByHeader", 0, 0, DeleteColByHeader(ds, header), NoHist)

CallInsertSeparator ==
  \E index \in (0 - 1)..(MaxRows + 1), text \in SepTexts :
    Mutate("InsertSeparator", index, 0, InsertSeparator(ds, index, text), NoHist)

CallAppendSeparator ==
  \E text \in SepTexts :
    Mutate("AppendSeparator", 0, 0, AppendSeparator(ds, text), NoHist)

CallWipe == Mutate("Wipe", 0, 0, Wipe(ds), NoHist)

CallCopy == Derive("Copy", 0, 0, Got(Copy(ds)))

CallSort ==
  \E colIndex \in (0 - 1)..MaxCols, reverse \in BOOLEAN :
    Derive("Sort", colIndex, IF reverse THEN 1 ELSE 0, Sort(ds, colIndex, reverse))

CallFilter == \E tag \in Tags : Derive("Filter", 0, 0, Got(Filter(ds, tag)))

CallSubset ==
  \E headers \in HeaderArgs :
    DeriveNoting("Subset", 0, Len(headers), Subset(ds, headers),
                 <<[stage |-> "subset", names |-> headers]>>)

CallStackRows ==
  \E other \in OtherTables \cup {ds} :
    DeriveNoting("StackRows", 0, 0, StackRows(ds, other),
                 <<[stage |-> "stacked", other |-> other]>>)

CallStackCols ==
  \E other \in OtherTables \cup {ds} :
    DeriveNoting("StackCols", 0, 0, StackCols(ds, other),
                 <<[stage |-> "stacked", other |-> other]>>)

CallRemoveDuplicates == Derive("RemoveDuplicates", 0, 0, Got(RemoveDuplicates(ds)))

CallTranspose == Derive("Transpose", 0, 0, Transpose(ds))

\* the caller sorts the ascending result again, descending, on the same column
CallSortAgain ==
  /\ op.name = "Sort" /\ op.n = 0 /\ err = "nil"
  /\ res' = Sort(res[1], op.idx, TRUE).t
  /\ err' = Sort(res[1], op.idx, TRUE).err
  /\ op' = [op EXCEPT !.name = "SortAgain", !.n = 1]
  /\ hist' = <<[stage |-> "sortedAsc", first |-> res[1]]>>
  /\ UNCHANGED <<ds, ret, shared, cmpArgs, cmpOut, codecVars>>

\* the caller removes duplicates from the table RemoveDuplicates returned
CallRemoveDuplicatesAgain ==
  /\ op.name = "RemoveDuplicates" /\ err = "nil"
  /\ res' = <<RemoveDuplicates(res[1])>>
  /\ err' = "nil"
  /\ op' = [op EXCEPT !.name = "RemoveDuplicatesAgain"]
  /\ hist' = <<[stage |-> "deduped", first |-> res[1]]>>
  /\ UNCHANGED <<ds, ret, shared, cmpArgs, cmpOut, codecVars>>

\* the call has returned and the caller drops what it returned; a panic is
\* not returned from
Discard ==
  /\ op # Idle
  /\ err # "panic"
  /\ op' = Idle
  /\ err' = "nil"
  /\ res' = <<>>
  /\ ret' = <<>>
  /\ hist' = IF hist # NoHist /\ hist[1].stage = "popped" THEN hist ELSE NoHist
  /\ shared' = NoLinks
  /\ UNCHANGED <<ds, cmpArgs, cmpOut, codecVars>>

Next ==
  \/ Discard
  \/ CallAppend
  \/ CallInsert
  \/ CallPop
  \/ CallLpop
  \/ CallRpop
  \/ CallSet
  \/ CallSetHeaders
  \/ CallAppendCol
  \/ CallInsertCol
  \/ CallDeleteCol
  \/ CallDeleteColByHeader
  \/ CallInsertSeparator
  \/ CallAppendSeparator
  \/ CallWipe
  \/ CallCopy
  \/ CallSort
  \/ CallFilter
  \/ CallSubset
  \/ CallStackRows
  \/ CallStackCols
  \/ CallRemoveDuplicates
  \/ CallTranspose
  \/ CallSortAgain
  \/ CallRemoveDuplicatesAgain

Spec == Init /\ [][Next]_vars

(***************************************************************************)
(* Sort and RemoveDuplicates as functions of the table: SpecDerive starts  *)
(* from any table of a family NewDataset and Append can build (one column, *)
(* row i tagged with its position), the sort example's table, and the      *)
(* tables of maxInsertion + 1 rows over two keys, the shortest that        *)
(* slices.SortFunc partitions.                                             *)
(***************************************************************************)
SortVals == {IntV(9), IntV(10), StrV(<<53>>)}

LargeKeys == {IntV(0), IntV(1)}

RowTag(i) == <<64 + i>>

KeyTable(keys) ==
  [NewDataset(<<(<<107>>)>>) EXCEPT
     !.data = IF Len(keys) = 0 THEN <<>> ELSE [i \in 1..Len(keys) |-> <<keys[i]>>],
     !.tags = IF Len(keys) = 0 THEN <<>> ELSE [i \in 1..Len(keys) |-> <<RowTag(i)>>]]

Alice == <<65, 108, 105, 99, 101>>

Bob == <<66, 111, 98>>

Charlie == <<67, 104, 97, 114, 108, 105, 101>>

ExampleTable ==
  [NewDataset(<<(<<78, 97, 109, 101>>), (<<65, 103, 101>>)>>) EXCEPT
     !.data = <<(<<StrV(Alice), IntV(30)>>), (<<StrV(Bob), IntV(25)>>),
                (<<StrV(Charlie), IntV(35)>>)>>,
     !.tags = <<(<<RowTag(1)>>), (<<RowTag(2)>>), (<<RowTag(3)>>)>>]

\* the same rows in the order TestDatasetSort appends them
TestSortTable ==
  [ExampleTable EXCEPT
     !.data = <<ExampleTable.data[3], ExampleTable.data[1], ExampleTable.data[2]>>]

\* the cells of the two-column tables: 1, "1", "1\x00", "" and "\x00"
PairVals == {IntV(1), StrV(<<49>>), StrV(<<49, 0>>), StrV(<<>>), StrV(<<0>>)}

PairTable(rows) ==
  [NewDataset(<<(<<107>>), (<<108>>)>>) EXCEPT
     !.data = rows,
     !.tags = IF Len(rows) = 0 THEN <<>> ELSE [i \in 1..Len(rows) |-> <<RowTag(i)>>]]

DeriveTables ==
  {KeyTable(k) : k \in SeqsUpTo(SortVals, MaxSortRows)}
    \cup {KeyTable(k) : k \in [1..SortLarge -> LargeKeys]}
    \cup {ExampleTable, TestSortTable}
    \cup {PairTable(r) : r \in SeqsUpTo([1..2 -> PairVals], MaxPairRows)}

InitDerive ==
  /\ ds \in DeriveTables
  /\ res = <<>>
  /\ op = Idle
  /\ err = "nil"
  /\ ret = <<>>
  /\ hist = NoHist
  /\ shared = NoLinks
  /\ cmpArgs = NoCmp
  /\ cmpOut = NoCmp
  /\ NoCodec

NextDerive ==
  \/ Discard
  \/ CallSort
  \/ CallSortAgain
  \/ CallRemoveDuplicates
  \/ CallRemoveDuplicatesAgain

SpecDerive == InitDerive /\ [][NextDerive]_vars

(***************************************************************************)
(* compareAny as a function: SpecCmp starts from any three cell values and *)
(* compares them pairwise.                                                 *)
(***************************************************************************)
CmpVals ==
  {IntV(9), IntV(10), Int64V(9), FloatV(9), FloatV(10), StrV(<<53>>),
   StrV(<<49, 48>>), BoolV(TRUE), NilV}

InitCmp ==
  /\ ds = NewDataset(<<>>)
  /\ res = <<>>
  /\ op = Idle
  /\ err = "nil"
  /\ ret = <<>>
  /\ hist = NoHist
  /\ shared = NoLinks
  /\ cmpArgs \in CmpVals \X CmpVals \X CmpVals
  /\ cmpOut = NoCmp
  /\ NoCodec

Compare ==
  /\ cmpOut = NoCmp
  /\ cmpOut' = <<[ab |-> compareAny(cmpArgs[1], cmpArgs[2]),
                  ba |-> compareAny(cmpArgs[2], cmpArgs[1]),
                  bc |-> compareAny(cmpArgs[2], cmpArgs[3]),
                  ac |-> compareAny(cmpArgs[1], cmpArgs[3])]>>
  /\ UNCHANGED <<ds, res, op, err, ret, hist, shared, cmpArgs, codecVars>>

NextCmp == Compare

SpecCmp == InitCmp /\ [][NextCmp]_vars

(***************************************************************************)
(* Derivations and Dict on tables that carry a separator, a formatter and  *)
(* a dynamic column, and what a caller holding both the receiver and the   *)
(* returned table sees when it then changes one of them.  SpecFrame starts *)
(* from the tables NewDataset and Append build (the first row tagged),     *)
(* those one AppendCol on a table without rows builds, and the same tables *)
(* after AppendSeparator, AddFormatter and AddDynamicColumn.               *)
(***************************************************************************)
FirstTagged(n) == IF n = 0 THEN <<>> ELSE [i \in 1..n |-> IF i = 1 THEN <<(<<116>>)>> ELSE <<>>]

\* Append row by row with the rows' tags, nothing on the first error
RECURSIVE AppendAll(_, _, _)
AppendAll(t, data, tagsOf) ==
  IF Len(data) = 0 THEN <<t>>
  ELSE IF AppendRow(t, data[1], tagsOf[1]).err # "nil" THEN <<>>
  ELSE AppendAll(AppendRow(t, data[1], tagsOf[1]).t, Tail(data), Tail(tagsOf))

PlainTables ==
  {c[1] : c \in {AppendAll(NewDataset(h), d, FirstTagged(Len(d))) :
                    h \in HeaderArgs, d \in SeqsUpTo(RowArgs, MaxRows)} \ {<<>>}}

ColumnTables ==
  {AppendCol(NewDataset(h), n, c).t :
     h \in SeqsUpTo(Names, MaxCols - 1), n \in Names, c \in ColArgs}

Dressed(t) ==
  AddDynamicColumn(AddFormatter(AppendSeparator(t, <<45>>).t, "upper").t, <<97>>, "len").t

FrameTables ==
  (PlainTables \cup ColumnTables) \cup {Dressed(t) : t \in PlainTables \cup ColumnTables}

InitFrame ==
  /\ ds \in FrameTables
  /\ res = <<>>
  /\ op = Idle
  /\ err = "nil"
  /\ ret = <<>>
  /\ hist = NoHist
  /\ shared = NoLinks
  /\ cmpArgs = NoCmp
  /\ cmpOut = NoCmp
  /\ NoCodec

CallDict ==
  /\ op = Idle
  /\ err' = Dict(ds).err
  /\ ret' = Dict(ds).ret
  /\ op' = OpRec("Dict", 0, 0)
  /\ UNCHANGED <<ds, res, hist, shared, cmpArgs, cmpOut, codecVars>>

DerivationNames ==
  {"Copy", "Sort", "Filter", "Subset", "StackRows", "StackCols", "RemoveDuplicates",
   "Transpose"}

LaterCount == IF hist # NoHist /\ hist[1].stage = "later" THEN hist[1].n ELSE 0

\* a write to the cell (row, col) of one table seen through the rows of the
\* other table that are the same slice
EchoSet(t, rows, col, value) ==
  [t EXCEPT !.data =
     IF Len(t.data) = 0 THEN <<>>
     ELSE [i \in 1..Len(t.data) |->
             IF i \in rows /\ col < Len(t.data[i])
             THEN [t.data[i] EXCEPT ![col + 1] = value]
             ELSE t.data[i]]]

\* a write to a map of one table seen through the other table when both hold
\* the same map
EchoMaps(t, mine) ==
  [t EXCEPT !.separators = IF "separators" \in shared.maps THEN mine.separators
                           ELSE t.separators,
            !.dynamicCols = IF "dynamicCols" \in shared.maps THEN mine.dynamicCols
                            ELSE t.dynamicCols]

\* the caller, holding the receiver and the table a derivation returned,
\* calls a mutation on one of them: r is what the method did to that table,
\* echo what the other table then holds
Later(side, call, r, echo) ==
  /\ op.name \in DerivationNames \cup {"Later"}
  /\ err = "nil"
  /\ res # <<>>
  /\ LaterCount < MaxLater
  /\ ds' = IF side = "result" THEN echo ELSE r.t
  /\ res' = IF side = "result" THEN <<r.t>> ELSE <<echo>>
  /\ err' = r.err
  /\ ret' = r.ret
  /\ op' = [op EXCEPT !.name = "Later"]
  /\ hist' = <<[stage |-> "later", side |-> side, call |-> call, of |-> op.name,
                n |-> LaterCount + 1]>>
  /\ shared' = IF call \in {"Set", "InsertSeparator", "AppendSeparator",
                             "AddDynamicColumn", "AddFormatter"}
                THEN shared ELSE [shared EXCEPT !.rows = {}]
  /\ UNCHANGED <<cmpArgs, cmpOut, codecVars>>

LaterOnResult ==
  \/ \E col \in 0..1, value \in Vals :
       Later("result", "Set", Set(res[1], 0, col, value),
             IF Set(res[1], 0, col, value).err = "nil"
             THEN EchoSet(ds, {i \in 1..Len(ds.data) : <<i, 1>> \in shared.rows}, col, value)
             ELSE ds)
  \/ \E value \in Vals :
       Later("result", "Append", AppendRow(res[1], <<value>>, <<>>), ds)
  \/ Later("result", "Pop", Pop(res[1], 0), ds)
  \/ Later("result", "DeleteCol", DeleteCol(res[1], 0), ds)
  \/ Later("result", "Wipe", Wipe(res[1]), ds)
  \/ Later("result", "InsertSeparator", InsertSeparator(res[1], 0, <<61>>),
           EchoMaps(ds, InsertSeparator(res[1], 0, <<61>>).t))
  \/ Later("result", "AppendSeparator", AppendSeparator(res[1], <<61>>),
           EchoMaps(ds, AppendSeparator(res[1], <<61>>).t))
  \/ Later("result", "AddDynamicColumn", AddDynamicColumn(res[1], <<98>>, "nil"),
           EchoMaps(ds, AddDynamicColumn(res[1], <<98>>, "nil").t))
  \/ Later("result", "AddFormatter", AddFormatter(res[1], "lower"), ds)

LaterOnReceiver ==
  \/ \E col \in 0..1, value \in Vals :
       Later("receiver", "Set", Set(ds, 0, col, value),
             IF Set(ds, 0, col, value).err = "nil"
             THEN EchoSet(res[1], {j \in 1..Len(res[1].data) : <<1, j>> \in shared.rows},
                          col, value)
             ELSE res[1])
  \/ \E value \in Vals :
       Later("receiver", "Append", AppendRow(ds, <<value>>, <<>>), res[1])
  \/ Later("receiver", "Pop", Pop(ds, 0), res[1])
  \/ Later("receiver", "DeleteCol", DeleteCol(ds, 0), res[1])
  \/ Later("receiver", "Wipe", Wipe(ds), res[1])
  \/ Later("receiver", "InsertSeparator", InsertSeparator(ds, 0, <<61>>),
           EchoMaps(res[1], InsertSeparator(ds, 0, <<61>>).t))
  \/ Later("receiver", "AppendSeparator", AppendSeparator(ds, <<61>>),
           EchoMaps(res[1], AppendSeparator(ds, <<61>>).t))
  \/ Later("receiver", "AddDynamicColumn", AddDynamicColumn(ds, <<98>>, "nil"),
           EchoMaps(res[1], AddDynamicColumn(ds, <<98>>, "nil").t))
  \/ Later("receiver", "AddFormatter", AddFormatter(ds, "lower"), res[1])

NextFrame ==
  \/ CallCopy
  \/ CallSort
  \/ CallFilter
  \/ CallSubset
  \/ CallStackRows
  \/ CallStackCols
  \/ CallRemoveDuplicates
  \/ CallTranspose
  \/ CallDict
  \/ LaterOnResult
  \/ LaterOnReceiver

SpecFrame == InitFrame /\ [][NextFrame]_vars

(***************************************************************************)
(* The claims.                                                             *)
(***************************************************************************)
RowsMatchWidth(t) == Width(t) > 0 => \A i \in 1..Len(t.data) : Len(t.data[i]) = Width(t)

\* C1: after any sequence of successful or failed mutations, and in every
\* table a derivation returns, every stored row has length Width() whenever
\* Width() > 0.
C1_RowLengthIsWidth ==
  err # "panic" => RowsMatchWidth(ds) /\ (res # <<>> => RowsMatchWidth(res[1]))

\* C2: the number of per-row tag lists equals the number of rows, in the
\* Dataset after every call and in every table a derivation returns.
C2_TagCountIsRowCount ==
  /\ Len(ds.tags) = Len(ds.data)
  /\ res # <<>> => Len(res[1].tags) = Len(res[1].data)

C2_Witness ==
  /\ op.name = "Pop" /\ err = "nil" /\ op.h = 2
  /\ Len(ds.data) = 1 /\ Len(ds.tags) = 1

\* C3: when Width() > 0, Append of a row whose length differs from Width()
\* returns ErrInvalidDimensions and the row count stays what it was.
C3_AppendRejectsWrongLength ==
  (op.name = "Append" /\ op.w > 0 /\ op.n # op.w)
    => (err = "ErrInvalidDimensions" /\ Height(ds) = op.h)

C3_Witness ==
  /\ op.name = "Append" /\ op.w = 2 /\ op.n = 1 /\ op.h = 1
  /\ err = "ErrInvalidDimensions" /\ Height(ds) = 1

MutationNames ==
  {"Append", "Insert", "Pop", "Lpop", "Rpop", "Set", "SetHeaders", "AppendCol",
   "InsertCol", "DeleteCol", "DeleteColByHeader", "InsertSeparator"}

IsError(e) == e # "nil" /\ e # "panic"

\* C4: a mutation that returns an error leaves headers, rows, tags and
\* separators exactly as they were before the call.
C4_ErrorLeavesDatasetUnchanged ==
  [][(op'.name \in MutationNames /\ IsError(err'))
       => (/\ ds'.headers = ds.headers
           /\ ds'.data = ds.data
           /\ ds'.tags = ds.tags
           /\ ds'.separators = ds.separators)]_vars

C4_Witness ==
  /\ op.name = "SetHeaders" /\ err = "ErrInvalidDimensions"
  /\ Len(ds.data) = 2 /\ op.n = 1 /\ Len(ds.headers) = 2 /\ ds.separators # {}

\* C5: for a valid row index i, Pop(i) followed immediately by
\* Insert(i, poppedRow) succeeds and restores the original row sequence.
C5_PopThenInsertRestores ==
  (hist # NoHist /\ hist[1].stage = "reinserted")
    => (err = "nil" /\ ds.data = hist[1].data)

\* C6: compareAny is a total order on cell values of any kinds: for all
\* a, b, c compare(a,b) = -compare(b,a), and a <= b and b <= c imply a <= c.
C6_CompareIsTotalOrder ==
  cmpOut # NoCmp
    => (/\ cmpOut[1].ab = 0 - cmpOut[1].ba
        /\ (cmpOut[1].ab <= 0 /\ cmpOut[1].bc <= 0) => cmpOut[1].ac <= 0)

Pairs(t) == IF Len(t.data) = 0 THEN <<>> ELSE [i \in 1..Len(t.data) |-> <<t.data[i], t.tags[i]>>]

Count(s, x) == Cardinality({i \in 1..Len(s) : s[i] = x})

SamePairs(t, u) ==
  /\ Len(u.data) = Len(t.data)
  /\ Len(u.tags) = Len(t.tags)
  /\ \A i \in 1..Len(t.data) : Count(Pairs(u), Pairs(t)[i]) = Count(Pairs(t), Pairs(t)[i])

OrderedOn(t, col, reverse) ==
  \A i \in 1..(Len(t.data) - 1) :
    IF reverse THEN compareAny(t.data[i][col + 1], t.data[i + 1][col + 1]) >= 0
    ELSE compareAny(t.data[i][col + 1], t.data[i + 1][col + 1]) <= 0

FirstCells(t) == [i \in 1..Len(t.data) |-> t.data[i][1].s]

OrigPos(t, i) == t.tags[i][1][1] - 64

\* C8: Sort is stable: two rows whose sort-column values compare equal keep
\* their relative order, ascending and descending.
C8_SortIsStable ==
  (op.name = "Sort" /\ err = "nil") =>
    \A i, j \in 1..Len(res[1].data) :
      (i < j /\ compareAny(res[1].data[i][op.idx + 1], res[1].data[j][op.idx + 1]) = 0)
        => OrigPos(res[1], i) < OrigPos(res[1], j)

NoTies(t, col) ==
  \A i, j \in 1..Len(t.data) :
    i # j => compareAny(t.data[i][col + 1], t.data[j][col + 1]) # 0

Reverse(s) == IF Len(s) = 0 THEN <<>> ELSE [i \in 1..Len(s) |-> s[Len(s) + 1 - i]]

\* C9: when no two rows tie on col, Sort(col, false) followed by
\* Sort(col, true) on the result yields exactly the reverse of the ascending
\* result.
C9_DescendingReversesAscending ==
  (hist # NoHist /\ hist[1].stage = "sortedAsc" /\ err = "nil" /\ NoTies(ds, op.idx))
    => res[1].data = Reverse(hist[1].first.data)

\* C10: RemoveDuplicates is idempotent: applied to its own result it returns
\* the same headers, rows and tags.
C10_RemoveDuplicatesIdempotent ==
  (hist # NoHist /\ hist[1].stage = "deduped")
    => (/\ res[1].headers = hist[1].first.headers
        /\ res[1].data = hist[1].first.data
        /\ res[1].tags = hist[1].first.tags)

C10_Witness ==
  /\ hist # NoHist /\ hist[1].stage = "deduped"
  /\ Len(ds.data) = 3 /\ Len(hist[1].first.data) = 2 /\ Len(res[1].data) = 2

RenderSeq(row) == IF Len(row) = 0 THEN <<>> ELSE [i \in 1..Len(row) |-> Render(row[i])]

\* the positions of the rows no earlier row has the same renderings as
FirstOccurrences(t) ==
  SelectIdx(Len(t.data),
            {i \in 1..Len(t.data) :
               \A j \in 1..(i - 1) : RenderSeq(t.data[j]) # RenderSeq(t.data[i])})

\* C11: RemoveDuplicates returns exactly the receiver's rows, with their
\* tags and in their order, that are the first with their sequence of
\* per-cell text renderings: rows are dropped if and only if an earlier row
\* renders the same cell by cell, so rows with different rendering sequences
\* never collide.
C11_RemoveDuplicatesKeepsFirstOccurrences ==
  op.name = "RemoveDuplicates"
    => (/\ res[1].data = Pick(ds.data, FirstOccurrences(ds))
        /\ res[1].tags = Pick(ds.tags, FirstOccurrences(ds)))

C13_DerivationsCarrySeparatorsAndFormatters ==
  (op.name \in DerivationNames /\ err = "nil")
    => (/\ res[1].separators = ds.separators
        /\ res[1].formatters = ds.formatters
        /\ res[1].dynamicCols = ds.dynamicCols)

\* C14: AppendCol and InsertCol (at a valid index) fail with
\* ErrInvalidDimensions when the table has rows and the column's length is
\* not the row count; on a table without rows a successful call with a
\* column of length n leaves n rows; every successful call grows Width() by
\* one and Get(i, c) returns col[i] for every row i, c the new column's index.
C14_ColumnAddedAtItsIndex ==
  (op.name \in {"AppendCol", "InsertCol"} /\ err # "panic")
    => LET col == hist[1].col
           c == IF op.name = "AppendCol" THEN op.w ELSE op.idx
       IN /\ (op.h > 0 /\ Len(col) # op.h /\ c >= 0 /\ c <= op.w)
               => err = "ErrInvalidDimensions"
          /\ (err = "nil" /\ op.h = 0) => Height(ds) = Len(col)
          /\ err = "nil"
               => (/\ Width(ds) = op.w + 1
                   /\ \A i \in 1..Len(col) :
                        Get(ds, i - 1, c) = [ret |-> <<col[i]>>, err |-> "nil"])

\* C15: DeleteCol(i) with 0 <= i < Width() succeeds, removes exactly the
\* i-th header and the i-th cell of every row, keeps the other headers and
\* cells in order and reduces Width() by one; any other index fails with
\* ErrInvalidColumnIndex.
C15_DeleteColRemovesColumn ==
  [][op'.name = "DeleteCol" =>
       IF op'.idx >= 0 /\ op'.idx < Width(ds)
       THEN /\ err' = "nil"
            /\ ds'.headers = DeleteAt(ds.headers, op'.idx)
            /\ Len(ds'.data) = Len(ds.data)
            /\ \A i \in 1..Len(ds.data) : ds'.data[i] = DeleteAt(ds.data[i], op'.idx)
            /\ Width(ds') = Width(ds) - 1
       ELSE err' = "ErrInvalidColumnIndex"]_vars

\* C16: Subset(names) fails with ErrColumnNotFound if a requested name is
\* not a header of the receiver; otherwise it returns a table whose headers
\* are the requested names in order, with the receiver's row count, whose
\* row r holds the receiver's cells of the named columns, and whose tags
\* are the receiver's in the same order.
C16_SubsetSelectsNamedColumns ==
  op.name = "Subset" =>
    LET names == hist[1].names
    IN IF \E i \in 1..Len(names) : \A j \in 1..Len(ds.headers) : ds.headers[j] # names[i]
       THEN err = "ErrColumnNotFound" /\ res = <<>>
       ELSE /\ err = "nil"
            /\ res # <<>>
            /\ res[1].headers = names
            /\ Len(res[1].data) = Len(ds.data)
            /\ \A r \in 1..Len(ds.data) :
                 /\ Len(res[1].data[r]) = Len(names)
                 /\ \A i \in 1..Len(names) :
                      \E j \in 1..Len(ds.data[r]) :
                        ds.headers[j] = names[i] /\ res[1].data[r][i] = ds.data[r][j]
            /\ res[1].tags = ds.tags

\* the same on receivers whose rows all have length Width()
C16_OnTablesOfFullRows == RowsMatchWidth(ds) => C16_SubsetSelectsNamedColumns

ColumnsFrom(t, first) ==
  IF Width(t) < first THEN <<>>
  ELSE [c \in 1..(Width(t) - first + 1) |->
          [r \in 1..Len(t.data) |-> t.data[r][first + c - 1]]]

\* C17: Transpose of a table with headers returns as headers the text
\* rendering of each row's first-column value, whatever its kind, and as
\* rows the remaining columns; of a table without headers, no headers and
\* every column as a row; every result row is as long as the receiver has
\* rows.
C17_TransposeRendersFirstColumn ==
  op.name = "Transpose" =>
    /\ err = "nil"
    /\ res # <<>>
    /\ Len(ds.data) > 0 =>
         IF Len(ds.headers) > 0
         THEN /\ res[1].headers = [r \in 1..Len(ds.data) |-> Render(ds.data[r][1])]
              /\ res[1].data = ColumnsFrom(ds, 2)
         ELSE /\ res[1].headers = <<>>
              /\ res[1].data = ColumnsFrom(ds, 1)
    /\ \A c \in 1..Len(res[1].data) : Len(res[1].data[c]) = Len(ds.data)

\* the same on receivers whose rows all have length Width()
C17_OnTablesOfFullRows == RowsMatchWidth(ds) => C17_TransposeRendersFirstColumn

\* C18: StackRows(other) fails with ErrInvalidDimensions exactly when the
\* two widths differ and otherwise returns the receiver's rows followed by
\* other's, each with its own tags; StackCols(other) fails with
\* ErrInvalidDimensions exactly when the two heights differ and otherwise
\* returns the receiver's headers followed by other's and, as row i, the
\* receiver's row i followed by other's row i.
C18_StackChecksDimensions ==
  /\ op.name = "StackRows" =>
       IF Width(ds) # Width(hist[1].other)
       THEN err = "ErrInvalidDimensions" /\ res = <<>>
       ELSE /\ err = "nil"
            /\ res[1].data = ds.data \o hist[1].other.data
            /\ res[1].tags = ds.tags \o hist[1].other.tags
  /\ op.name = "StackCols" =>
       IF Height(ds) # Height(hist[1].other)
       THEN err = "ErrInvalidDimensions" /\ res = <<>>
       ELSE /\ err = "nil"
            /\ res[1].headers = ds.headers \o hist[1].other.headers
            /\ Len(res[1].data) = Len(ds.data)
            /\ \A i \in 1..Len(ds.data) :
                 res[1].data[i] = ds.data[i] \o hist[1].other.data[i]

C18_Witness ==
  /\ op.name = "StackRows" /\ err = "ErrInvalidDimensions"
  /\ Width(ds) = 2 /\ Width(hist[1].other) = 1
  /\ Height(ds) = 1 /\ Height(hist[1].other) = 1

\* C19: Dict() fails with ErrHeadersRequired when there are no headers;
\* otherwise it returns one map per row, in row order, whose keys are the
\* headers together with the dynamic-column names, a stored header mapping
\* to that row's cell and a dynamic-column name to the function's value on
\* the row, also when a stored column has the same name.
C19_DictMapsHeadersAndDynamicColumns ==
  op.name = "Dict" =>
    IF Len(ds.headers) = 0 THEN err = "ErrHeadersRequired"
    ELSE /\ err = "nil"
         /\ Len(ret[1]) = Len(ds.data)
         /\ \A i \in 1..Len(ds.data) :
              /\ DOMAIN ret[1][i]
                   = {ds.headers[j] : j \in 1..Len(ds.headers)} \cup DynamicNames(ds)
              /\ \A j \in 1..Len(ds.headers) :
                   ds.headers[j] \notin DynamicNames(ds)
                     => ret[1][i][ds.headers[j]] = ds.data[i][j]
              /\ \A d \in ds.dynamicCols :
                   ret[1][i][d.name] = CallDynamicColumn(d.fn, ds.data[i])

\* the same on receivers whose rows all have length Width()
C19_OnTablesOfFullRows == RowsMatchWidth(ds) => C19_DictMapsHeadersAndDynamicColumns

\* the same on receivers with full rows and no header name used twice
C19_OnDistinctHeaders ==
  (\A j, k \in 1..Len(ds.headers) : j # k => ds.headers[j] # ds.headers[k])
    => C19_OnTablesOfFullRows

RowMutationNames == {"Append", "Insert", "Pop", "Lpop", "Rpop", "Wipe"}

\* C20: every separator a call stores is at a position in [0, row count] as
\* of that call: InsertSeparator(index, text) with index outside that range
\* fails with ErrInvalidRowIndex and stores nothing, and otherwise stores at
\* index; AppendSeparator stores at the row count at call time; row
\* insertions and removals never move, add or remove separators.
C20_SeparatorsSetInRange ==
  [][/\ \A s \in ds'.separators \ ds.separators : s.pos >= 0 /\ s.pos <= Height(ds)
     /\ op'.name = "InsertSeparator" =>
          IF op'.idx < 0 \/ op'.idx > Height(ds)
          THEN err' = "ErrInvalidRowIndex" /\ ds'.separators = ds.separators
          ELSE err' = "nil" /\ \E s \in ds'.separators : s.pos = op'.idx
     /\ op'.name = "AppendSeparator" =>
          (err' = "nil" /\ \E s \in ds'.separators : s.pos = Height(ds))
     /\ op'.name \in RowMutationNames => ds'.separators = ds.separators]_vars

C20_Witness ==
  /\ op.name = "InsertSeparator" /\ op.h = 1 /\ op.idx = 2
  /\ err = "ErrInvalidRowIndex" /\ ds.separators = {[pos |-> 0, text |-> <<45>>]}

(***************************************************************************)
(* Text helpers of the codecs, on byte sequences.  strings.ToUpper,        *)
(* strings.ToLower and strings.TrimSpace are modelled on ASCII, which is   *)
(* what header names and padding consist of here; other bytes pass         *)
(* through.                                                                *)
(***************************************************************************)
\* a function on 1..n as a sequence, the empty one as <<>>
AsSeq(f) == IF DOMAIN f = {} THEN <<>> ELSE f

\* the concatenation of f[lo], ..., f[hi]
RECURSIVE Flat(_, _, _)
Flat(f, lo, hi) ==
  IF lo > hi THEN <<>>
  ELSE IF lo = hi THEN f[lo]
  ELSE LET mid == (lo + hi) \div 2 IN Flat(f, lo, mid) \o Flat(f, mid + 1, hi)

Concat(ss) == Flat(ss, 1, Len(ss))

\* the sum of f[lo], ..., f[hi]
RECURSIVE Sum(_, _, _)
Sum(f, lo, hi) ==
  IF lo > hi THEN 0
  ELSE IF lo = hi THEN f[lo]
  ELSE LET mid == (lo + hi) \div 2 IN Sum(f, lo, mid) + Sum(f, mid + 1, hi)

ToUpper(b) == AsSeq([i \in 1..Len(b) |-> IF b[i] \in 97..122 THEN b[i] - 32 ELSE b[i]])

ToLower(b) == AsSeq([i \in 1..Len(b) |-> IF b[i] \in 65..90 THEN b[i] + 32 ELSE b[i]])

\* unicode.IsSpace on a one-byte rune
IsSpace(c) == c \in {9, 10, 11, 12, 13, 32}

TrimSpace(b) ==
  LET keep == {i \in 1..Len(b) : ~IsSpace(b[i])}
  IN  IF keep = {} THEN <<>>
      ELSE SubSeq(b, CHOOSE i \in keep : \A j \in keep : i <= j,
                     CHOOSE i \in keep : \A j \in keep : j <= i)

\* utf8.RuneCountInString: every byte that is not a continuation byte
\* starts a rune
RuneCount(b) == Cardinality({i \in 1..Len(b) : ~(b[i] \in 128..191)})

(***************************************************************************)
(* Formatters (src/dataset.go): the functions a client registers are the   *)
(* test's upper-casing one, its lower-casing twin and the README's         *)
(* currency one; any other name leaves the value as it is.                 *)
(***************************************************************************)
CallFormatter(fn, v) ==
  CASE fn = "upper" /\ v.k = "string" -> StrV(ToUpper(v.s))
    [] fn = "lower" /\ v.k = "string" -> StrV(ToLower(v.s))
    [] fn = "dollar" /\ v.k = "int" -> StrV(<<36>> \o IntText(v.n))
    [] OTHER -> v

RECURSIVE applyFrom(_, _, _)
applyFrom(fns, i, result) ==
  IF i > Len(fns) THEN result ELSE applyFrom(fns, i + 1, CallFormatter(fns[i], result))

\* for _, fn := range ds.formatters { result = fn(result) }
ApplyFormatters(t, value) == applyFrom(t.formatters, 1, value)

(***************************************************************************)
(* The CSV exporter (src/csv.go) with encoding/csv's Writer: a field is    *)
(* quoted when it holds the delimiter, a quote, CR or LF, or starts with a *)
(* space; a quote inside is doubled; every record ends with LF.            *)
(***************************************************************************)
fieldNeedsQuotes(field, comma) ==
  /\ Len(field) > 0
  /\ \/ field = <<92, 46>>
     \/ \E i \in 1..Len(field) : field[i] \in {comma, 34, 13, 10}
     \/ IsSpace(field[1])

writeField(field, comma) ==
  IF fieldNeedsQuotes(field, comma)
  THEN <<34>> \o Concat(AsSeq([i \in 1..Len(field) |->
        IF field[i] = 34 THEN <<34, 34>> ELSE <<field[i]>>])) \o <<34>>
  ELSE field

\* csv.Writer.Write(record)
writeRecord(record, comma) ==
  Concat(AsSeq([i \in 1..Len(record) |->
        (IF i > 1 THEN <<comma>> ELSE <<>>) \o writeField(record[i], comma)])) \o <<10>>

\* what exportCSVWithOptions writes of a table whose records are cells
csvOf(t, comma, writeHeader, cells) ==
  (IF writeHeader /\ Len(t.headers) > 0 THEN writeRecord(t.headers, comma) ELSE <<>>)
  \o Concat(AsSeq([r \in 1..Len(cells) |-> writeRecord(cells[r], comma)]))

\* record[i] = fmt.Sprintf("%v", v) of the stored value
exportCSVWithOptions(t, comma, writeHeader) ==
  [out |-> csvOf(t, comma, writeHeader,
                 AsSeq([r \in 1..Len(t.data) |->
                       AsSeq([c \in 1..Len(t.data[r]) |-> Render(t.data[r][c])])])),
   err |-> "nil"]

exportCSV(t) == exportCSVWithOptions(t, 44, TRUE)

exportTSV(t) == exportCSVWithOptions(t, 9, TRUE)

(***************************************************************************)
(* The DBF codec (src/dbf.go, the dBase part).  A file is the sequence of  *)
(* its bytes; integers of the header keep their width (uint32, uint16,     *)
(* byte).                                                                  *)
(***************************************************************************)
dbfVersion == 3

dbfHeaderTerminator == 13

dbfRecordDeleted == 42

dbfRecordActive == 32

dbfEOF == 26

dbfFieldTypeChar == 67

\* time.Now() as year - 1900, month, day
Dates == {<<126, 11, 6>>}

Zeros(n) == AsSeq([i \in 1..n |-> 0])

Spaces(n) == AsSeq([i \in 1..n |-> 32])

\* binary.LittleEndian, after the conversion to the field's width
LE16(n) == <<(n % 65536) % 256, (n % 65536) \div 256>>

\* the four low bytes of n, which is the conversion to uint32
LE32(n) == <<n % 256, (n \div 256) % 256, (n \div 65536) % 256, (n \div 16777216) % 256>>

MaxOf(S) == CHOOSE x \in S : \A y \in S : y <= x

\* fieldLengths[i]: the header's length capped at 254, raised to the longest
\* rendering in the column, then kept within 1..254
fieldLength(t, i) ==
  LET maxLen == IF Len(t.headers[i]) > 254 THEN 254 ELSE Len(t.headers[i])
      valLens == {Len(Render(t.data[r][i])) :
                    r \in {q \in 1..Len(t.data) : i <= Len(t.data[q])}}
      m == MaxOf({maxLen} \cup valLens)
  IN  IF m < 1 THEN 1 ELSE IF m > 254 THEN 254 ELSE m

\* the 32 bytes of a dbfFieldDescriptor: Name [11], Type, Reserved1 [4],
\* Length, DecimalCount, Reserved2 [14]
fieldDescriptor(header, length) ==
  LET name == ToUpper(IF Len(header) > 10 THEN SubSeq(header, 1, 10) ELSE header)
  IN  name \o Zeros(11 - Len(name)) \o <<dbfFieldTypeChar>> \o Zeros(4)
        \o <<length % 256, 0>> \o Zeros(14)

\* the 32 bytes of a dbfHeader
headerBytes(today, recordCount, headerSize, recordSize) ==
  <<dbfVersion, today[1] % 256, today[2] % 256, today[3] % 256>>
    \o LE32(recordCount) \o LE16(headerSize) \o LE16(recordSize) \o Zeros(20)

\* val[:l] when longer, then fmt.Sprintf("%-*s", l, val), which pads up to
\* l runes
padValue(val, l) ==
  LET cut == IF Len(val) > l THEN SubSeq(val, 1, l) ELSE val
  IN  cut \o Spaces(IF RuneCount(cut) < l THEN l - RuneCount(cut) ELSE 0)

recordBytes(row, lengths) ==
  <<dbfRecordActive>>
    \o Concat(AsSeq([i \in 1..Len(lengths) |->
          padValue(IF i <= Len(row) THEN Render(row[i]) ELSE <<>>, lengths[i])]))

exportDBF(t, today) ==
  IF Len(t.headers) = 0 THEN [out |-> NoFile, err |-> "ErrHeadersRequired"]
  ELSE
    LET fieldLengths == [i \in 1..Len(t.headers) |-> fieldLength(t, i)]
        recordSize == 1 + Sum(fieldLengths, 1, Len(fieldLengths))
        headerSize == 32 + (32 * Len(t.headers)) + 1
    IN  [out |-> headerBytes(today, Len(t.data), headerSize, recordSize)
                   \o Concat([i \in 1..Len(t.headers) |->
                                fieldDescriptor(t.headers[i], fieldLengths[i])])
                   \o <<dbfHeaderTerminator>>
                   \o Concat(AsSeq([r \in 1..Len(t.data) |->
                         recordBytes(t.data[r], fieldLengths)]))
                   \o <<dbfEOF>>,
         err |-> "nil"]

\* the little-endian fields of the header; at is the 0-based offset
U16(data, at) == data[at + 1] + 256 * data[at + 2]

U32(data, at) ==
  data[at + 1] + 256 * data[at + 2] + 65536 * data[at + 3] + 16777216 * data[at + 4]

\* Go's integer division, which truncates toward zero
Quo(a, b) == IF a >= 0 THEN a \div b ELSE 0 - ((0 - a) \div b)

\* f.Name[:] up to its first NUL, trimmed
fieldName(data, i) ==
  LET name == SubSeq(data, 32 + (i - 1) * 32 + 1, 32 + (i - 1) * 32 + 11)
      nul == {k \in 1..11 : name[k] = 0}
  IN  TrimSpace(IF nul = {} THEN name
                ELSE SubSeq(name, 1, (CHOOSE k \in nul : \A j \in nul : k <= j) - 1))

\* f.Length
fieldLen(data, i) == data[32 + (i - 1) * 32 + 17]

\* one record's row: the fields are cut one after the other behind the
\* flag byte; the first field that does not fit ends the loop and leaves
\* the remaining cells nil
parseRecord(recordData, lengths) ==
  LET fieldOffset(j) == 1 + Sum(lengths, 1, j - 1)
      bad == {j \in 1..Len(lengths) : fieldOffset(j) + lengths[j] > Len(recordData)}
  IN  AsSeq([j \in 1..Len(lengths) |-> IF \E b \in bad : b <= j THEN NilV
                   ELSE StrV(TrimSpace(SubSeq(recordData, fieldOffset(j) + 1,
                                              fieldOffset(j) + lengths[j])))])

\* how many of the declared records the loop reaches before its break
recordsRead(data, recordStart, recordSize, recordCount) ==
  IF recordStart + recordSize > Len(data) THEN 0
  ELSE IF recordSize = 0 THEN recordCount
  ELSE IF (Len(data) - recordStart) \div recordSize < recordCount
       THEN (Len(data) - recordStart) \div recordSize
       ELSE recordCount

\* data[offset : offset+recordSize] of the i-th declared record
recordAt(data, recordStart, recordSize, i) ==
  SubSeq(data, recordStart + (i - 1) * recordSize + 1, recordStart + i * recordSize)

\* a record loop without the check of the deletion flag
allRecords(data, recordStart, recordSize, n) == SelectIdx(n, 1..n)

\* if recordData[0] == dbfRecordDeleted { continue }
activeRecords(data, recordStart, recordSize, n) ==
  SelectIdx(n, {i \in 1..n : recordAt(data, recordStart, recordSize, i)[1] # dbfRecordDeleted})

importDBF(data) ==
  IF Len(data) < 32 THEN [t |-> <<>>, err |-> "ErrInvalidData"]
  ELSE
    LET recordCount == U32(data, 4)
        recordStart == U16(data, 8)
        recordSize == U16(data, 10)
        numFields == Quo(recordStart - 32 - 1, 32)
    IN  IF numFields < 0 \/ numFields > 1000 THEN [t |-> <<>>, err |-> "ErrInvalidData"]
        ELSE IF numFields > 0 /\ 32 + 32 * numFields > Len(data)
        THEN [t |-> <<>>, err |-> "ErrInvalidData"]
        ELSE
          LET headers == AsSeq([i \in 1..numFields |-> fieldName(data, i)])
              lengths == AsSeq([i \in 1..numFields |-> fieldLen(data, i)])
              n == recordsRead(data, recordStart, recordSize, recordCount)
              active == activeRecords(data, recordStart, recordSize, n)
              rows == AsSeq([k \in 1..Len(active) |->
                    parseRecord(recordAt(data, recordStart, recordSize, active[k]),
                                               lengths)])
          IN  \* recordData[0] of an empty record
              IF n > 0 /\ recordSize = 0 THEN [t |-> <<>>, err |-> "panic"]
              ELSE [t |-> NewDatasetWithData(headers, rows), err |-> "nil"]

(***************************************************************************)
(* The ODS codec (src/ods.go).  An archive is the sequence of its zip      *)
(* entries in the order they were written, each with its compression       *)
(* method; content.xml is held as the XML document it spells: tables of    *)
(* rows of cells, a cell with its value-type, its optional value attribute *)
(* and its optional paragraph (an absent one is <<>>, a present one        *)
(* <<text>>).  The other entries are held as their bytes.                  *)
(***************************************************************************)
\* "application/vnd.oasis.opendocument.spreadsheet"
MimeType ==
  <<97, 112, 112, 108, 105, 99, 97, 116, 105, 111, 110, 47, 118, 110, 100, 46, 111, 97,
    115, 105, 115, 46, 111, 112, 101, 110, 100, 111, 99, 117, 109, 101, 110, 116, 46, 115,
    112, 114, 101, 97, 100, 115, 104, 101, 101, 116>>

\* the manifest text of exportODSSheets
ManifestXml ==
  <<60, 63, 120, 109, 108, 32, 118, 101, 114, 115, 105, 111, 110, 61, 34, 49, 46, 48, 34,
    32, 101, 110, 99, 111, 100, 105, 110, 103, 61, 34, 85, 84, 70, 45, 56, 34, 63, 62, 10,
    60, 109, 97, 110, 105, 102, 101, 115, 116, 58, 109, 97, 110, 105, 102, 101, 115, 116,
    32, 120, 109, 108, 110, 115, 58, 109, 97, 110, 105, 102, 101, 115, 116, 61, 34, 117,
    114, 110, 58, 111, 97, 115, 105, 115, 58, 110, 97, 109, 101, 115, 58, 116, 99, 58, 111,
    112, 101, 110, 100, 111, 99, 117, 109, 101, 110, 116, 58, 120, 109, 108, 110, 115, 58,
    109, 97, 110, 105, 102, 101, 115, 116, 58, 49, 46, 48, 34, 32, 109, 97, 110, 105, 102,
    101, 115, 116, 58, 118, 101, 114, 115, 105, 111, 110, 61, 34, 49, 46, 50, 34, 62, 10,
    32, 32, 60, 109, 97, 110, 105, 102, 101, 115, 116, 58, 102, 105, 108, 101, 45, 101, 110,
    116, 114, 121, 32, 109, 97, 110, 105, 102, 101, 115, 116, 58, 102, 117, 108, 108, 45,
    112, 97, 116, 104, 61, 34, 47, 34, 32, 109, 97, 110, 105, 102, 101, 115, 116, 58, 109,
    101, 100, 105, 97, 45, 116, 121, 112, 101, 61, 34, 97, 112, 112, 108, 105, 99, 97, 116,
    105, 111, 110, 47, 118, 110, 100, 46, 111, 97, 115, 105, 115, 46, 111, 112, 101, 110,
    100, 111, 99, 117, 109, 101, 110, 116, 46, 115, 112, 114, 101, 97, 100, 115, 104, 101,
    101, 116, 34, 47, 62, 10, 32, 32, 60, 109, 97, 110, 105, 102, 101, 115, 116, 58, 102,
    105, 108, 101, 45, 101, 110, 116, 114, 121, 32, 109, 97, 110, 105, 102, 101, 115, 116,
    58, 102, 117, 108, 108, 45, 112, 97, 116, 104, 61, 34, 99, 111, 110, 116, 101, 110, 116,
    46, 120, 109, 108, 34, 32, 109, 97, 110, 105, 102, 101, 115, 116, 58, 109, 101, 100,
    105, 97, 45, 116, 121, 112, 101, 61, 34, 116, 101, 120, 116, 47, 120, 109, 108, 34, 47,
    62, 10, 32, 32, 60, 109, 97, 110, 105, 102, 101, 115, 116, 58, 102, 105, 108, 101, 45,
    101, 110, 116, 114, 121, 32, 109, 97, 110, 105, 102, 101, 115, 116, 58, 102, 117, 108,
    108, 45, 112, 97, 116, 104, 61, 34, 115, 116, 121, 108, 101, 115, 46, 120, 109, 108, 34,
    32, 109, 97, 110, 105, 102, 101, 115, 116, 58, 109, 101, 100, 105, 97, 45, 116, 121,
    112, 101, 61, 34, 116, 101, 120, 116, 47, 120, 109, 108, 34, 47, 62, 10, 60, 47, 109,
    97, 110, 105, 102, 101, 115, 116, 58, 109, 97, 110, 105, 102, 101, 115, 116, 62>>

\* the styles.xml text of exportODSSheets
StylesXml ==
  <<60, 63, 120, 109, 108, 32, 118, 101, 114, 115, 105, 111, 110, 61, 34, 49, 46, 48, 34,
    32, 101, 110, 99, 111, 100, 105, 110, 103, 61, 34, 85, 84, 70, 45, 56, 34, 63, 62, 10,
    60, 111, 102, 102, 105, 99, 101, 58, 100, 111, 99, 117, 109, 101, 110, 116, 45, 115,
    116, 121, 108, 101, 115, 32, 120, 109, 108, 110, 115, 58, 111, 102, 102, 105, 99, 101,
    61, 34, 117, 114, 110, 58, 111, 97, 115, 105, 115, 58, 110, 97, 109, 101, 115, 58, 116,
    99, 58, 111, 112, 101, 110, 100, 111, 99, 117, 109, 101, 110, 116, 58, 120, 109, 108,
    110, 115, 58, 111, 102, 102, 105, 99, 101, 58, 49, 46, 48, 34, 32, 111, 102, 102, 105,
    99, 101, 58, 118, 101, 114, 115, 105, 111, 110, 61, 34, 49, 46, 50, 34, 62, 10, 60, 47,
    111, 102, 102, 105, 99, 101, 58, 100, 111, 99, 117, 109, 101, 110, 116, 45, 115, 116,
    121, 108, 101, 115, 62>>

\* xml.Header
XmlHeader ==
  <<60, 63, 120, 109, 108, 32, 118, 101, 114, 115, 105, 111, 110, 61, 34, 49, 46, 48, 34,
    32, 101, 110, 99, 111, 100, 105, 110, 103, 61, 34, 85, 84, 70, 45, 56, 34, 63, 62, 10>>

\* "Sheet"
DefaultSheetName == <<83, 104, 101, 101, 116>>

\* zipWriter.CreateHeader(&zip.FileHeader{Name: name, Method: zip.Store})
StoredEntry(name, text) == [name |-> name, method |-> "Store", text |-> text, tables |-> <<>>]

\* zipWriter.Create(name), which compresses with Deflate
DeflatedEntry(name, text, tables) ==
  [name |-> name, method |-> "Deflate", text |-> text, tables |-> tables]

\* character data and attribute values as encoding/xml writes them and
\* reads them back: a control character other than tab, LF and CR is
\* written as U+FFFD; every other character comes back as it was
XmlText(b) ==
  Concat(AsSeq([i \in 1..Len(b) |->
        IF b[i] < 32 /\ ~(b[i] \in {9, 10, 13}) THEN <<239, 191, 189>> ELSE <<b[i]>>]))

\* an attribute tagged omitempty is left out when its string is empty
OmitEmpty(b) == IF Len(b) = 0 THEN <<>> ELSE <<XmlText(b)>>

odsCell(valueType, value, styleName, text) ==
  [valueType |-> valueType, value |-> OmitEmpty(value), style |-> styleName,
   text |-> <<XmlText(text)>>]

\* the header row: string cells in the bold style
headerRow(t) == AsSeq([i \in 1..Len(t.headers) |->
      odsCell("string", <<>>, "bold", t.headers[i])])

\* switch val := v.(type)
dataCell(v) ==
  CASE v.k \in {"int", "int64", "float64"} -> odsCell("float", Render(v), "", Render(v))
    [] v.k = "bool" -> odsCell("boolean", Render(v), "", Render(v))
    [] OTHER -> odsCell("string", <<>>, "", Render(v))

odsTable(t) ==
  [name |-> XmlText(IF Len(t.title) = 0 THEN DefaultSheetName ELSE t.title),
   rows |-> (IF Len(t.headers) > 0 THEN <<headerRow(t)>> ELSE <<>>)
              \o AsSeq([r \in 1..Len(t.data) |->
                    AsSeq([c \in 1..Len(t.data[r]) |-> dataCell(t.data[r][c])])])]

MimetypeEntry == StoredEntry("mimetype", MimeType)

\* an exporter that lets the zip writer compress the MIME-type entry
exportODSSheetsDeflatingAll(sheets) ==
  [out |-> <<DeflatedEntry("mimetype", MimeType, <<>>),
             DeflatedEntry("META-INF/manifest.xml", ManifestXml, <<>>),
             DeflatedEntry("styles.xml", StylesXml, <<>>),
             DeflatedEntry("content.xml", XmlHeader,
                           AsSeq([i \in 1..Len(sheets) |-> odsTable(sheets[i])]))>>,
   err |-> "nil"]

\* the entries in the order exportODSSheets creates them; writes to the
\* bytes.Buffer cannot fail
exportODSSheets(sheets) ==
  [out |-> <<MimetypeEntry,
             DeflatedEntry("META-INF/manifest.xml", ManifestXml, <<>>),
             DeflatedEntry("styles.xml", StylesXml, <<>>),
             DeflatedEntry("content.xml", XmlHeader,
                           AsSeq([i \in 1..Len(sheets) |-> odsTable(sheets[i])]))>>,
   err |-> "nil"]

exportODS(t) == exportODSSheets(<<t>>)

exportODSDatabook(sheets) == exportODSSheets(sheets)

\* the first of the positions in hits, or 0
FirstOf(hits) == IF hits = {} THEN 0 ELSE CHOOSE i \in hits : \A j \in hits : i <= j

\* text := strings.TrimSpace(cell.Text); if text == "" { text = cell.Value }
cellText(cell) ==
  LET text == TrimSpace(IF Len(cell.text) = 0 THEN <<>> ELSE cell.text[1])
  IN  IF Len(text) = 0 THEN (IF Len(cell.value) = 0 THEN <<>> ELSE cell.value[1]) ELSE text

\* row := make([]any, len(headers)), filled from the cells up to len(headers)
odsDataRow(cells, width) ==
  AsSeq([j \in 1..width |-> IF j <= Len(cells) THEN StrV(cellText(cells[j])) ELSE NilV])

ImportODS(archive, sheetName) ==
  LET at == FirstOf({i \in 1..Len(archive) : archive[i].name = "content.xml"})
  IN  IF at = 0 THEN [t |-> <<>>, err |-> "content.xml not found"]
      ELSE
        LET tables == archive[at].tables
            target == FirstOf({i \in 1..Len(tables) :
                                Len(sheetName) = 0 \/ tables[i].name = sheetName})
        IN  IF target = 0 THEN [t |-> <<>>, err |-> "sheet not found"]
            ELSE IF Len(tables[target].rows) = 0 THEN [t |-> <<NewDataset(<<>>)>>, err |-> "nil"]
            ELSE
              LET rows == tables[target].rows
                  headers == AsSeq([j \in 1..Len(rows[1]) |-> cellText(rows[1][j])])
                  data == AsSeq([i \in 1..(Len(rows) - 1) |->
                        odsDataRow(rows[i + 1], Len(headers))])
                  made == NewDatasetWithData(headers, data)
              IN  IF made = <<>> THEN [t |-> <<>>, err |-> "ErrInvalidDimensions"]
                  ELSE [t |-> <<[made[1] EXCEPT !.title = tables[target].name]>>, err |-> "nil"]

(***************************************************************************)
(* Dispatch through the registry (src/dbf.go, the registry part).  A       *)
(* client's own handler ("h1", "h2") leaves its name in what it writes or  *)
(* returns, so that the handler that ran shows.                            *)
(***************************************************************************)
ClientHandlers == {"h1", "h2"}

HandlerTag(handler) == IF handler = "h1" THEN <<104, 49>> ELSE <<104, 50>>

\* exporter.Export(ds, w)
RunExporter(handler, t, today) ==
  CASE handler = "exportCSV" -> exportCSV(t)
    [] handler = "exportTSV" -> exportTSV(t)
    [] handler = "exportDBF" -> exportDBF(t, today)
    [] handler = "exportODS" -> exportODS(t)
    [] OTHER -> [out |-> HandlerTag(handler), err |-> "nil"]

\* importer.Import(r)
RunImporter(handler, source) ==
  CASE handler = "importDBF" -> importDBF(source)
    [] OTHER -> [t |-> <<[NewDataset(<<>>) EXCEPT !.title = HandlerTag(handler)]>>, err |-> "nil"]

\* exporter.ExportDatabook(db, w)
RunDatabookExporter(handler, sheets) ==
  CASE handler = "exportODSDatabook" -> exportODSDatabook(sheets)
    [] OTHER -> [out |-> HandlerTag(handler), err |-> "nil"]

\* exporter, ok := exporters[format]; if !ok { return ErrUnsupportedFormat }
Export(r, t, format, today) ==
  IF r.exporters[format] = "none"
  THEN [out |-> NoFile, err |-> "ErrUnsupportedFormat"]
  ELSE RunExporter(r.exporters[format], t, today)

Import(r, format, source) ==
  IF r.importers[format] = "none"
  THEN [t |-> <<>>, err |-> "ErrUnsupportedFormat"]
  ELSE RunImporter(r.importers[format], source)

DatabookExport(r, sheets, format) ==
  IF r.databookExporters[format] = "none"
  THEN [out |-> NoFile, err |-> "ErrUnsupportedFormat"]
  ELSE RunDatabookExporter(r.databookExporters[format], sheets)

\* a call through the registry, as the caller's history keeps it
Called(kind, format) == [stage |-> "called", kind |-> kind, format |-> format, handler |-> "none"]

(***************************************************************************)
(* Exporting tables that carry formatters.                                 *)
(***************************************************************************)
MaxFormatters == 2

FormatterFns == {"upper", "lower", "dollar"}

ExportVals == {IntV(50), StrV(<<97>>), StrV(<<97, 44, 34>>)}

ExportHeaders == {<<>>, <<<<110>>>>, <<<<110>>, <<115>>>>}

ExportTables ==
  {c[1] : c \in {NewDatasetWithData(h, rows) :
                   h \in ExportHeaders,
                   rows \in SeqsUpTo(SeqsUpTo(ExportVals, MaxCols) \ {<<>>}, MaxRows)}
                \ {<<>>}}

InitExport ==
  /\ ds \in ExportTables
  /\ res = <<>>
  /\ op = Idle
  /\ err = "nil"
  /\ ret = <<>>
  /\ hist = NoHist
  /\ shared = NoLinks
  /\ cmpArgs = NoCmp
  /\ cmpOut = NoCmp
  /\ NoCodec

CallAddFormatter ==
  \E fn \in FormatterFns :
    /\ op = Idle
    /\ Len(ds.formatters) < MaxFormatters
    /\ ds' = AddFormatter(ds, fn).t
    /\ UNCHANGED <<res, op, err, ret, hist, shared, cmpArgs, cmpOut, codecVars>>

CallApplyFormatters ==
  \E v \in ExportVals :
    /\ op = Idle
    /\ ret' = <<ApplyFormatters(ds, v)>>
    /\ op' = OpRec("ApplyFormatters", 0, 0)
    /\ hist' = <<[stage |-> "applied", value |-> v]>>
    /\ UNCHANGED <<ds, res, err, shared, cmpArgs, cmpOut, codecVars>>

\* ds.Export(format, &buf)
CallExport ==
  \E format \in {"csv", "tsv", "dbf", "ods", "latex"}, today \in Dates :
    /\ op = Idle
    /\ file' = Export(registry, ds, format, today).out
    /\ err' = Export(registry, ds, format, today).err
    /\ op' = OpRec("Export", 0, 0)
    /\ hist' = Append(hist, Called("exporter", format))
    /\ UNCHANGED <<ds, res, ret, shared, cmpArgs, cmpOut, registry, pc, db>>

NextExport == CallAddFormatter \/ CallApplyFormatters \/ CallExport

SpecExport == InitExport /\ [][NextExport]_vars

\* the delimiter of a delimited-text format
CommaOf(format) == IF format = "tsv" THEN 9 ELSE 44

\* what a delimited-text export writes when every cell goes through the
\* table's formatters first
FormattedCsv(t, format) ==
  csvOf(t, CommaOf(format), TRUE,
        AsSeq([r \in 1..Len(t.data) |->
              AsSeq([c \in 1..Len(t.data[r]) |-> Render(ApplyFormatters(t, t.data[r][c]))])]))

\* C21: for a table with at least one formatter, the cell values Export
\* writes are the stored values threaded through all formatters in
\* registration order, and the stored rows stay unchanged.
C21_ExportAppliesFormatters ==
  [][(op'.name = "Export" /\ err' = "nil" /\ Len(ds.formatters) > 0
        /\ hist'[Len(hist')].format \in {"csv", "tsv"})
       => /\ ds' = ds
          /\ file' = FormattedCsv(ds, hist'[Len(hist')].format)]_vars

(***************************************************************************)
(* Writing a table as DBF, what can happen to the file before it is read   *)
(* back (a record flagged deleted by a dBase program, a cut, a damaged     *)
(* header field), and reading it.                                          *)
(***************************************************************************)
MaxDbfRows == 2

MaxDbfCols == 2

\* "n" and "Description"
DbfNames == {<<110>>, <<68, 101, 115, 99, 114, 105, 112, 116, 105, 111, 110>>}

\* "Al", 30, "é" and " x"
DbfVals == {StrV(<<65, 108>>), IntV(30), StrV(<<195, 169>>), StrV(<<32, 120>>)}

\* the test's table: headers ["Name", "Age"], rows ["Alice", "30"]
ExampleDbf ==
  NewDatasetWithData(<<<<78, 97, 109, 101>>, <<65, 103, 101>>>>,
                     <<<<StrV(<<65, 108, 105, 99, 101>>), StrV(<<51, 48>>)>>>>)[1]

\* the fewest columns whose header size 32 + 32 * n + 1 needs more than 16 bits
WideCols == (65536 - 33) \div 32 + 1

WideDbf == NewDataset([i \in 1..WideCols |-> <<>>])

\* one cell longer than the longest DBF field
LongDbf == NewDatasetWithData(<<<<110>>>>, <<<<StrV([i \in 1..255 |-> 120])>>>>)[1]

DbfTables ==
  {c[1] : c \in {NewDatasetWithData(h, rows) :
                   h \in SeqsUpTo(DbfNames, MaxDbfCols),
                   rows \in SeqsUpTo(SeqsUpTo(DbfVals, MaxDbfCols) \ {<<>>}, MaxDbfRows)}
                \ {<<>>}}
    \cup {ExampleDbf, WideDbf, LongDbf}

InitDbf ==
  /\ ds \in DbfTables
  /\ res = <<>>
  /\ op = Idle
  /\ err = "nil"
  /\ ret = <<>>
  /\ hist = NoHist
  /\ shared = NoLinks
  /\ cmpArgs = NoCmp
  /\ cmpOut = NoCmp
  /\ NoCodec

CallExportDBF ==
  \E today \in Dates :
    /\ op = Idle
    /\ file' = exportDBF(ds, today).out
    /\ err' = exportDBF(ds, today).err
    /\ op' = OpRec("exportDBF", 0, 0)
    /\ hist' = <<[stage |-> "written", how |-> "exportDBF"]>>
    /\ UNCHANGED <<ds, res, ret, shared, cmpArgs, cmpOut, registry, pc, db>>

\* the file as exportDBF left it, not read yet
Written == op.name = "exportDBF" /\ err = "nil" /\ hist[1].how = "exportDBF"

Edit(how, bytes) ==
  /\ Written
  /\ file' = bytes
  /\ hist' = <<[stage |-> "written", how |-> how]>>
  /\ UNCHANGED <<ds, res, op, err, ret, shared, cmpArgs, cmpOut, registry, pc, db>>

Overwrite(data, at, bytes) ==
  [i \in 1..Len(data) |-> IF i - at \in 1..Len(bytes) THEN bytes[i - at] ELSE data[i]]

\* a dBase program flags some records deleted
MarkDeleted ==
  \E S \in (SUBSET (1..Len(ds.data))) \ {{}} :
    /\ Written
    /\ U16(file, 8) + Len(ds.data) * U16(file, 10) < Len(file)
    /\ Edit("MarkDeleted",
            [i \in 1..Len(file) |->
               IF \E r \in S : i = U16(file, 8) + (r - 1) * U16(file, 10) + 1
               THEN dbfRecordDeleted ELSE file[i]])

\* the file loses its tail
Truncate ==
  \E k \in {0, 31, 32, 40, 64, Len(file) - 2} :
    /\ Written
    /\ k \in 0..(Len(file) - 1)
    /\ Edit("Truncate", SubSeq(file, 1, k))

\* the header's byte-length field holds another value
SetHeaderSize ==
  \E v \in {0, 1, 2, 32, 33, 65535} : Written /\ Edit("SetHeaderSize", Overwrite(file, 8, LE16(v)))

\* the header's record byte-length field holds 0
SetRecordSize == Written /\ Edit("SetRecordSize", Overwrite(file, 10, LE16(0)))

\* the header declares one record more than the file holds
SetRecordCount == Written /\ Edit("SetRecordCount", Overwrite(file, 4, LE32(U32(file, 4) + 1)))

CallImportDBF ==
  /\ op.name = "exportDBF"
  /\ err = "nil"
  /\ res' = importDBF(file).t
  /\ err' = importDBF(file).err
  /\ op' = OpRec("importDBF", 0, 0)
  /\ UNCHANGED <<ds, ret, hist, shared, cmpArgs, cmpOut, codecVars>>

NextDbf ==
  \/ CallExportDBF
  \/ MarkDeleted
  \/ Truncate
  \/ SetHeaderSize
  \/ SetRecordSize
  \/ SetRecordCount
  \/ CallImportDBF

SpecDbf == InitDbf /\ [][NextDbf]_vars

\* C24: for every table with headers, exportDBF followed by importDBF gives
\* a table with the same row count, the upper-cased headers and, in every
\* cell, the trimmed text rendering of the original value.
C24_DbfRoundTrip ==
  (op.name = "importDBF" /\ hist[1].how = "exportDBF" /\ Len(ds.headers) > 0)
    => /\ err = "nil"
       /\ res # <<>>
       /\ Len(res[1].data) = Len(ds.data)
       /\ res[1].headers = [i \in 1..Len(ds.headers) |-> ToUpper(ds.headers[i])]
       /\ \A r \in 1..Len(ds.data) :
            res[1].data[r] = AsSeq([c \in 1..Len(ds.data[r]) |->
                  StrV(TrimSpace(Render(ds.data[r][c])))])

\* the longest of the header name and the column's renderings, in bytes,
\* kept within 1..254
ColumnBytes(t, i) ==
  LET m == MaxOf({Len(t.headers[i])}
                 \cup {Len(Render(t.data[r][i])) :
                         r \in {q \in 1..Len(t.data) : i <= Len(t.data[q])}})
  IN  IF m < 1 THEN 1 ELSE IF m > 254 THEN 254 ELSE m

\* 1 + the sum of the field lengths
TrueRecordSize(t) == 1 + Sum([i \in 1..Len(t.headers) |-> ColumnBytes(t, i)], 1, Len(t.headers))

TrueHeaderSize(t) == 32 + 32 * Len(t.headers) + 1

\* C25: the header's 2-byte header length is 32 + 32 * fieldCount + 1, its
\* 2-byte record length is 1 + the sum of the field lengths, its 4-byte
\* record count is the row count, and the records written take exactly
\* record-length bytes each, for any number of columns.
C25_DbfHeaderMatchesLayout ==
  (op.name = "exportDBF" /\ err = "nil" /\ hist[1].how = "exportDBF")
    => /\ U16(file, 8) = TrueHeaderSize(ds)
       /\ U16(file, 10) = TrueRecordSize(ds)
       /\ U32(file, 4) = Len(ds.data)
       /\ Len(file) = TrueHeaderSize(ds) + Len(ds.data) * TrueRecordSize(ds) + 1

\* the bytes of field j of the i-th record, by the file's own header and
\* field descriptors
FieldBytes(data, i, j) ==
  LET before == Sum([k \in 1..j |-> IF k < j THEN data[32 + (k - 1) * 32 + 17] ELSE 0], 1, j)
      at == U16(data, 8) + (i - 1) * U16(data, 10) + 1 + before
  IN  SubSeq(data, at + 1, at + data[32 + (j - 1) * 32 + 17])

\* the declared records whose flag byte is not '*', in file order
KeptRecords(data) ==
  SelectIdx(U32(data, 4),
            {i \in 1..U32(data, 4) : data[U16(data, 8) + (i - 1) * U16(data, 10) + 1] # 42})

\* C26: importDBF skips every record flagged '*': the imported rows are the
\* declared records whose flag byte is not '*', in file order, each with
\* one trimmed value per field descriptor.
C26_DbfSkipsDeletedRecords ==
  (op.name = "importDBF" /\ err = "nil" /\ hist[1].how \in {"exportDBF", "MarkDeleted"})
    => /\ res # <<>>
       /\ Len(res[1].data) = Len(KeptRecords(file))
       /\ \A k \in 1..Len(res[1].data) :
            /\ Len(res[1].data[k]) = (U16(file, 8) - 33) \div 32
            /\ \A j \in 1..Len(res[1].data[k]) :
                 res[1].data[k][j] = StrV(TrimSpace(FieldBytes(file, KeptRecords(file)[k], j)))

\* a file of two records, the first flagged deleted, has been read
C26_Witness ==
  /\ op.name = "importDBF"
  /\ err = "nil"
  /\ hist[1].how = "MarkDeleted"
  /\ U32(file, 4) = 2
  /\ KeptRecords(file) = <<2>>
  /\ Len(res[1].data) = 1

ShortHeader(data) == Len(data) < 32

SmallHeaderSize(data) == U16(data, 8) < 33

ImplausibleFieldCount(data) == (U16(data, 8) - 33) \div 32 > 1000

DescriptorsPastEnd(data) ==
  U16(data, 8) >= 33 /\ 32 + 32 * ((U16(data, 8) - 33) \div 32) > Len(data)

RecordsPastEnd(data) == U16(data, 8) + U32(data, 4) * U16(data, 10) > Len(data)

EmptyRecords(data) == U16(data, 10) = 0 /\ U32(data, 4) # 0

Malformed(data) ==
  \/ ShortHeader(data)
  \/ /\ ~ShortHeader(data)
     /\ \/ SmallHeaderSize(data)
        \/ ImplausibleFieldCount(data)
        \/ DescriptorsPastEnd(data)
        \/ RecordsPastEnd(data)
        \/ EmptyRecords(data)

\* C27: importDBF answers malformed input (shorter than the header, header
\* length below 33, field count negative or above 1000, descriptors or
\* declared records past the end of the data, record length 0 with records
\* declared) with ErrInvalidData: it returns no table and does not abort.
C27_DbfRejectsMalformedInput ==
  (op.name = "importDBF" /\ Malformed(file)) => (err = "ErrInvalidData" /\ res = <<>>)

(***************************************************************************)
(* A Databook (src/databook.go) filled sheet by sheet, written as ODS as a *)
(* whole or one sheet at a time, and archives read back by sheet name; an  *)
(* archive may also come from another spreadsheet program.                 *)
(***************************************************************************)
MaxSheets == 2

MaxOdsRows == 1

\* "", "s" and "t"
OdsTitles == {<<>>, <<115>>, <<116>>}

\* 1, "a" and " b"
OdsVals == {IntV(1), StrV(<<97>>), StrV(<<32, 98>>)}

\* no headers, or the one header "h"
OdsHeaders == {<<>>, <<<<104>>>>}

OdsSheets ==
  {[c[1] EXCEPT !.title = title] :
     title \in OdsTitles,
     c \in {NewDatasetWithData(h, rows) :
              h \in OdsHeaders, rows \in SeqsUpTo([1..1 -> OdsVals], MaxOdsRows)} \ {<<>>}}

\* db.sheets = append(db.sheets, ds)
AddSheet(sheets, t) == Append(sheets, t)

\* cells as other programs write them: a percentage with its value and
\* its display text, a number without a paragraph, a string, an empty cell
ForeignCells ==
  {[valueType |-> "float", value |-> <<<<48, 46, 53>>>>, style |-> "", text |-> <<<<53, 48, 37>>>>],
   [valueType |-> "float", value |-> <<<<49>>>>, style |-> "", text |-> <<>>],
   [valueType |-> "string", value |-> <<>>, style |-> "", text |-> <<<<97>>>>],
   [valueType |-> "", value |-> <<>>, style |-> "", text |-> <<>>]}

\* one table "s" with the header row "h" and one or two data rows of one
\* cell; and an archive without content.xml
ForeignArchives ==
  {<<MimetypeEntry,
     DeflatedEntry("content.xml", XmlHeader,
       <<[name |-> <<115>>,
          rows |-> <<<<odsCell("string", <<>>, "", <<104>>)>>>> \o rows]>>)>> :
     rows \in [1..1 -> [1..1 -> ForeignCells]] \cup [1..2 -> [1..1 -> ForeignCells]]}
    \cup {<<MimetypeEntry>>}

InitOds ==
  /\ ds = NewDataset(<<>>)
  /\ res = <<>>
  /\ op = Idle
  /\ err = "nil"
  /\ ret = <<>>
  /\ hist = NoHist
  /\ shared = NoLinks
  /\ cmpArgs = NoCmp
  /\ cmpOut = NoCmp
  /\ NoCodec

CallAddSheet ==
  \E t \in OdsSheets :
    /\ op = Idle
    /\ Len(db) < MaxSheets
    /\ db' = AddSheet(db, t)
    /\ UNCHANGED <<ds, res, op, err, ret, hist, shared, cmpArgs, cmpOut, file, registry, pc>>

Archive(name, how, r) ==
  /\ op = Idle
  /\ file' = r.out
  /\ err' = r.err
  /\ op' = OpRec(name, 0, 0)
  /\ hist' = <<[stage |-> "archive", how |-> how, sheet |-> <<>>]>>
  /\ UNCHANGED <<ds, res, ret, shared, cmpArgs, cmpOut, registry, pc, db>>

CallExportODSDatabook == Archive("exportODSDatabook", "exportODSDatabook", exportODSDatabook(db))

\* one sheet of the book written on its own
CallExportODS ==
  \E k \in 1..Len(db) : Archive("exportODS", "exportODS", exportODS(db[k]))

\* an archive written by another program
ReceiveArchive ==
  \E a \in ForeignArchives : Len(db) = 0 /\ Archive("ReceiveArchive", "foreign", [out |-> a, err |-> "nil"])

CallImportODS ==
  \E sheetName \in OdsTitles :
    /\ op.name \in {"exportODSDatabook", "exportODS", "ReceiveArchive"}
    /\ err = "nil"
    /\ res' = ImportODS(file, sheetName).t
    /\ err' = ImportODS(file, sheetName).err
    /\ op' = OpRec("ImportODS", 0, 0)
    /\ hist' = <<[stage |-> "imported", how |-> hist[1].how, sheet |-> sheetName]>>
    /\ UNCHANGED <<ds, ret, shared, cmpArgs, cmpOut, codecVars>>

NextOds ==
  \/ CallAddSheet
  \/ CallExportODSDatabook
  \/ CallExportODS
  \/ ReceiveArchive
  \/ CallImportODS

SpecOds == InitOds /\ [][NextOds]_vars

\* C28: every archive the exporter writes, for one table or for a
\* collection, has the MIME-type entry first and stored without
\* compression, followed by the manifest, the styles and the content.
C28_MimetypeFirstAndStored ==
  (hist # NoHist /\ hist[1].how \in {"exportODS", "exportODSDatabook"})
    => /\ Len(file) = 4
       /\ file[1].name = "mimetype"
       /\ file[1].method = "Store"
       /\ file[1].text = MimeType
       /\ file[2].name = "META-INF/manifest.xml"
       /\ file[3].name = "styles.xml"
       /\ file[4].name = "content.xml"

\* a collection of two sheets has been written
C28_Witness ==
  /\ op.name = "exportODSDatabook"
  /\ Len(db) = 2
  /\ Len(file) = 4
  /\ Len(file[4].tables) = 2

\* C29: exporting a collection with exportODSDatabook and importing with a
\* table's title gives, for each table of that title, a table with the
\* same header list, the same row count and every cell rendering as the
\* original value does.
C29_OdsRoundTrip ==
  (op.name = "ImportODS" /\ hist[1].how = "exportODSDatabook")
    => \A k \in 1..Len(db) :
         db[k].title = hist[1].sheet
           => /\ err = "nil"
              /\ res # <<>>
              /\ res[1].headers = db[k].headers
              /\ Len(res[1].data) = Len(db[k].data)
              /\ \A r \in 1..Len(db[k].data) :
                   RenderSeq(res[1].data[r]) = RenderSeq(db[k].data[r])

\* the value a cell stands for when the value attribute comes first
ValueFirst(cell) ==
  IF Len(cell.value) > 0 THEN cell.value[1]
  ELSE TrimSpace(IF Len(cell.text) = 0 THEN <<>> ELSE cell.text[1])

\* C30: a decoded cell is the value attribute when the cell has one, and
\* the paragraph text only when it has none (checked on archives of one
\* table, where the table read is known).
C30_ValueAttributeFirst ==
  (op.name = "ImportODS" /\ err = "nil" /\ Len(file[Len(file)].tables) = 1
     /\ Len(file[Len(file)].tables[1].rows) > 0)
    => LET rows == file[Len(file)].tables[1].rows
       IN  /\ Len(res[1].data) = Len(rows) - 1
           /\ \A i \in 1..Len(res[1].data) :
                \A j \in 1..Len(res[1].data[i]) :
                  j <= Len(rows[i + 1]) => res[1].data[i][j] = StrV(ValueFirst(rows[i + 1][j]))

(***************************************************************************)
(* Registering handlers one call after the other, and exporting and        *)
(* importing through the registry.  hist is the list of the Register calls *)
(* made, followed by the call that went through the registry.              *)
(***************************************************************************)
MaxRegs == 3

\* a format with an exporter and an importer, and one with no handler
RegFormats == {"dbf", "latex"}

Registration(kind, format, handler) ==
  [stage |-> "registered", kind |-> kind, format |-> format, handler |-> handler]

\* the bytes handed to Import
ImportSource == exportDBF(ExampleDbf, <<126, 11, 6>>).out

InitRegistry ==
  /\ ds = ExampleDbf
  /\ res = <<>>
  /\ op = Idle
  /\ err = "nil"
  /\ ret = <<>>
  /\ hist = NoHist
  /\ shared = NoLinks
  /\ cmpArgs = NoCmp
  /\ cmpOut = NoCmp
  /\ file = NoFile
  /\ registry = Registered
  /\ pc = NoPc
  /\ db = <<ExampleDbf>>

Register(kind, format, handler, r) ==
  /\ op = Idle
  /\ Len(hist) < MaxRegs
  /\ registry' = r
  /\ hist' = Append(hist, Registration(kind, format, handler))
  /\ UNCHANGED <<ds, res, op, err, ret, shared, cmpArgs, cmpOut, file, pc, db>>

CallRegisterExporter ==
  \E format \in RegFormats, handler \in ClientHandlers :
    Register("exporter", format, handler, RegisterExporter(registry, format, handler))

CallRegisterImporter ==
  \E format \in RegFormats, handler \in ClientHandlers :
    Register("importer", format, handler, RegisterImporter(registry, format, handler))

CallRegisterDatabookExporter ==
  \E format \in RegFormats, handler \in ClientHandlers :
    Register("databookExporter", format, handler,
             RegisterDatabookExporter(registry, format, handler))

\* Import(format, r)
CallImport ==
  \E format \in {"dbf", "latex", "ods"} :
    /\ op = Idle
    /\ res' = Import(registry, format, ImportSource).t
    /\ err' = Import(registry, format, ImportSource).err
    /\ op' = OpRec("Import", 0, 0)
    /\ hist' = Append(hist, Called("importer", format))
    /\ UNCHANGED <<ds, ret, shared, cmpArgs, cmpOut, codecVars>>

\* db.Export(format, &buf)
CallDatabookExport ==
  \E format \in {"dbf", "latex", "ods"} :
    /\ op = Idle
    /\ file' = DatabookExport(registry, db, format).out
    /\ err' = DatabookExport(registry, db, format).err
    /\ op' = OpRec("DatabookExport", 0, 0)
    /\ hist' = Append(hist, Called("databookExporter", format))
    /\ UNCHANGED <<ds, res, ret, shared, cmpArgs, cmpOut, registry, pc, db>>

NextRegistry ==
  \/ CallRegisterExporter
  \/ CallRegisterImporter
  \/ CallRegisterDatabookExporter
  \/ CallExport
  \/ CallImport
  \/ CallDatabookExport

SpecRegistry == InitRegistry /\ [][NextRegistry]_vars

\* the handler init registered for a kind and a format
LoadedHandler(kind, format) ==
  CASE kind = "exporter" -> Registered.exporters[format]
    [] kind = "importer" -> Registered.importers[format]
    [] OTHER -> Registered.databookExporters[format]

\* the handler of the most recent Register call in the history for this
\* kind and format, or the one init registered
LastRegistered(kind, format) ==
  LET calls == {i \in 1..Len(hist) : /\ hist[i].stage = "registered"
                                     /\ hist[i].kind = kind
                                     /\ hist[i].format = format}
  IN  IF calls = {} THEN LoadedHandler(kind, format) ELSE hist[MaxOf(calls)].handler

\* C22: Export, Import and Databook.Export return ErrUnsupportedFormat, and
\* write nothing, exactly when no handler of their kind is registered for
\* the format; otherwise the handler that runs is the one most recently
\* registered for that kind and format, whatever was registered for others.
C22_RegistryDispatch ==
  op.name \in {"Export", "Import", "DatabookExport"} =>
    LET call == hist[Len(hist)]
        handler == LastRegistered(call.kind, call.format)
    IN  /\ (err = "ErrUnsupportedFormat") <=> (handler = "none")
        /\ handler = "none" => (file = NoFile /\ res = <<>>)
        /\ (handler # "none" /\ op.name = "Export")
             => \E today \in Dates : file = RunExporter(handler, ds, today).out
        /\ (handler # "none" /\ op.name = "Import")
             => res = RunImporter(handler, ImportSource).t
        /\ (handler # "none" /\ op.name = "DatabookExport")
             => file = RunDatabookExporter(handler, db).out

\* an exporter registered twice for a format that had none, another one
\* registered for a second format, and the first format then exported
C22_Witness ==
  /\ op.name = "Export"
  /\ Len(hist) = 4
  /\ hist[1] = Registration("exporter", "latex", "h1")
  /\ hist[2] = Registration("exporter", "latex", "h2")
  /\ hist[3] = Registration("exporter", "dbf", "h1")
  /\ hist[4] = Called("exporter", "latex")
  /\ file = HandlerTag("h2")

(***************************************************************************)
(* Goroutines that call Register at the same time.  The functions take no  *)
(* lock: a call's map assignment begins and ends as two steps, and another *)
(* goroutine may begin its own in between.  Two assignments to the same    *)
(* map that overlap are a data race, whose outcome is any of: the store    *)
(* lands, the store is lost, the runtime stops the process ("concurrent    *)
(* map writes").                                                           *)
(***************************************************************************)
Callers == 2

RegisterCalls ==
  {[at |-> "ready", kind |-> kind, format |-> format, handler |-> handler, raced |-> FALSE] :
     kind \in {"exporter", "importer", "databookExporter"},
     format \in RegFormats, handler \in ClientHandlers}

InitRace ==
  /\ ds = NewDataset(<<>>)
  /\ res = <<>>
  /\ op = Idle
  /\ err = "nil"
  /\ ret = <<>>
  /\ hist = NoHist
  /\ shared = NoLinks
  /\ cmpArgs = NoCmp
  /\ cmpOut = NoCmp
  /\ file = NoFile
  /\ registry = Registered
  /\ pc \in [1..Callers -> RegisterCalls]
  /\ db = NoBook

\* the registry after the call's assignment
Stored(r, call) ==
  CASE call.kind = "exporter" -> RegisterExporter(r, call.format, call.handler)
    [] call.kind = "importer" -> RegisterImporter(r, call.format, call.handler)
    [] OTHER -> RegisterDatabookExporter(r, call.format, call.handler)

\* g enters its Register function and starts the map assignment; nothing
\* makes it wait for a goroutine that is in the middle of one
BeginRegister ==
  \E g \in 1..Callers :
    /\ err = "nil"
    /\ pc[g].at = "ready"
    /\ pc' = [o \in 1..Callers |->
                IF o = g
                THEN [pc[g] EXCEPT !.at = "writing",
                                   !.raced = \E w \in 1..Callers :
                                                /\ w # g
                                                /\ pc[w].at = "writing"
                                                /\ pc[w].kind = pc[g].kind]
                ELSE IF pc[o].at = "writing" /\ pc[o].kind = pc[g].kind
                THEN [pc[o] EXCEPT !.raced = TRUE]
                ELSE pc[o]]
    /\ UNCHANGED <<ds, res, op, err, ret, hist, shared, cmpArgs, cmpOut, file, registry, db>>

\* g's map assignment ends
EndRegister ==
  \E g \in 1..Callers :
    /\ err = "nil"
    /\ pc[g].at = "writing"
    /\ pc' = [pc EXCEPT ![g].at = "done"]
    /\ \/ registry' = Stored(registry, pc[g]) /\ err' = err
       \/ pc[g].raced /\ registry' = registry /\ err' = err
       \/ pc[g].raced /\ registry' = registry /\ err' = "fatal error: concurrent map writes"
    /\ UNCHANGED <<ds, res, op, ret, hist, shared, cmpArgs, cmpOut, file, db>>

NextRace == BeginRegister \/ EndRegister

SpecRace == InitRace /\ [][NextRace]_vars

\* the handler the registry holds for a call's kind and format
Held(call) ==
  CASE call.kind = "exporter" -> registry.exporters[call.format]
    [] call.kind = "importer" -> registry.importers[call.format]
    [] OTHER -> registry.databookExporters[call.format]

\* C23: registrations made at the same time are synchronized: no two
\* callers are inside an assignment to the same map together, the process
\* is not stopped, and once all have returned every registration is in the
\* registry (for a kind and format registered by several callers, one of
\* theirs).
C23_RegistrationSynchronized ==
  /\ \A g \in 1..Len(pc), o \in 1..Len(pc) :
       (g # o /\ pc[g].at = "writing" /\ pc[o].at = "writing") => pc[g].kind # pc[o].kind
  /\ err # "fatal error: concurrent map writes"
  /\ (\A g \in 1..Len(pc) : pc[g].at = "done")
       => \A g \in 1..Len(pc) :
            Held(pc[g]) \in {pc[o].handler : o \in {w \in 1..Len(pc) :
                                                     /\ pc[w].kind = pc[g].kind
                                                     /\ pc[w].format = pc[g].format}}
====
